---- MODULE Spec2Model ----
(***************************************************************************)
(* A model of vibe-heal's remediation engine:                              *)
(*   - the version-control adapters (vcs/git/manager.py and                *)
(*     vcs/mercurial/manager.py): commit_fix, create_commit and the        *)
(*     shared stage-and-commit helper, over an abstract repository;        *)
(*   - the single-file flow (orchestrator.py: VibeHealOrchestrator);       *)
(*   - the branch flow (cleanup/orchestrator.py: CleanupOrchestrator).     *)
(*                                                                         *)
(*   - the deduplication flow, the two processors, one agent invocation    *)
(*     (ai_tools) and the wait for the server-side analysis                *)
(*     (sonarqube/analysis_runner.py).                                     *)
(*                                                                         *)
(* The specifications share the variables:                                 *)
(*   SpecVcs    - a client calling the adapter operations in any order;    *)
(*   SpecFix    - one run of fix_file;                                     *)
(*   Spec       - one run of cleanup_branch, fix_file nested in its fix    *)
(*                step (FairSpec: the same with weak fairness);            *)
(*   SpecDedupe - one run of dedupe_file;                                  *)
(*   SpecProc   - one call of a processor;                                 *)
(*   SpecAgent  - one call of fix_issue of an agent tool;                  *)
(*   SpecWait   - one call of _wait_for_analysis (FairWait: with weak      *)
(*                fairness of the loop).                                   *)
(***************************************************************************)
EXTENDS Integers, Sequences, FiniteSets, TLC

(***************************************************************************)
(* Bounds                                                                  *)
(***************************************************************************)
\* contents a file can take (0 stands for "no such entry")
MaxContent == 2
\* commits a client of the adapter may create in SpecVcs
MaxCommits == 3

Files == {"a.py", "b.ts"}
Contents == 1..MaxContent

(***************************************************************************)
(* The abstract repository.                                                *)
(*   head[f]  - content of f in the HEAD / parent revision (0: not in it)  *)
(*   index[f] - git: content of f in the index (0: not tracked);           *)
(*              hg: non-zero iff f is tracked (added or in the parent)     *)
(*   wt[f]    - content of f in the working tree                           *)
(*   commits  - number of commits created; the id of HEAD                  *)
(***************************************************************************)
VARIABLES backend, repo, lastCall

vcsVars == <<backend, lastCall>>

(***************************************************************************)
(* The single-file flow (VibeHealOrchestrator.fix_file).                   *)
(*   sonar[f]  - the findings the analysis server holds for f, or NotFound *)
(*   fpc       - where fix_file is: idle, validate, fetch, process,        *)
(*               confirm, agent, commit, returned, raised                  *)
(*   fargs     - file_path, dry_run, max_issues (0: None),                 *)
(*               min_severity ("": None)                                   *)
(*   fissues   - the fetched issues                                        *)
(*   fresult   - the ProcessingResult                                      *)
(*   fidx      - the 1-based position in issues_to_fix                     *)
(*   fixres    - the FixResult of the agent call in progress               *)
(*   summary   - the FixSummary being built / returned                     *)
(*   ferr      - the exception fix_file raised ("": none)                  *)
(*   attempts  - history: one entry per agent call, with the commit outcome*)
(***************************************************************************)
VARIABLES sonar, fpc, fargs, fissues, fresult, fidx, fixres, summary, ferr, attempts, flog

fixVars == <<sonar, fpc, fargs, fissues, fresult, fidx, fixres, summary, ferr, attempts, flog>>

(***************************************************************************)
(* The branch flow (CleanupOrchestrator.cleanup_branch).                   *)
(*   bpc              - where cleanup_branch is: idle, start, create,      *)
(*                      analysis, check, fix, fix_file (fix_file running), *)
(*                      after_loop, except, finally, done                  *)
(*   bargs            - max_iterations, file_patterns ({}: None)           *)
(*   modified_files   - the filtered list of modified files                *)
(*   temp_project     - TRUE once the ephemeral project's metadata is held *)
(*   file_results_map - file -> FileCleanupResult                          *)
(*   files_processed  - the local list of that name                        *)
(*   iteration        - the loop variable (0-based)                        *)
(*   analysis_ok      - analysis_result.success of the last refresh        *)
(*   total_fixable, files_with_issues, cidx, widx - the check and fix      *)
(*                      steps' locals and loop positions                   *)
(*   configKey        - config.sonarqube_project_key: "base" or "temp"     *)
(*   original_project_key - the key the step in progress saved on entry   *)
(*   berr, bresult    - the exception caught, the CleanupResult returned   *)
(*   calls            - history: the number of modified files found       *)
(*                      before filtering; create, delete, analysis calls,  *)
(*                      fix passes                                         *)
(*   ghostFixed       - history: per file, the sum of the fixed counts of  *)
(*                      the fix_file runs that returned                    *)
(*   passLog          - history: the files handled in the current fix pass *)
(*   broke            - history: the loop was left by its break            *)
(***************************************************************************)
VARIABLES bpc, bargs, modified_files, temp_project, file_results_map, files_processed,
          iteration, analysis_ok, total_fixable, files_with_issues, cidx, widx,
          configKey, original_project_key, berr, bresult, calls, ghostFixed, passLog, broke,
          exit_code

branchVars == <<bpc, bargs, modified_files, temp_project, file_results_map, files_processed,
                iteration, analysis_ok, total_fixable, files_with_issues, cidx, widx,
                configKey, original_project_key, berr, bresult, calls, ghostFixed, passLog,
                broke, exit_code>>

(***************************************************************************)
(* One agent invocation (ai_tools: fix_issue and _invoke_claude,           *)
(* _invoke_aider, run_command) and one wait for the server-side analysis   *)
(* (AnalysisRunner._wait_for_analysis).                                    *)
(*   aargs     - tool, timeout (seconds), available, file_exists           *)
(*   apc       - where fix_issue is: idle, fix_issue, spawn, communicate,  *)
(*               timed_out, wait, finally, returned                        *)
(*   subprocess - the agent process:   none, running, exited (terminated   *)
(*               on its own), killed (signalled, not yet awaited), reaped  *)
(*   aclock    - seconds spent in communicate()                            *)
(*   temp_file - the prompt file exists                                    *)
(*   pending   - the exception travelling out of _invoke ("": none)        *)
(*   aresult   - the FixResult fix_issue returned                          *)
(*   kills     - calls of process.kill()                                   *)
(*   wargs     - timeout (seconds) of _wait_for_analysis                   *)
(*   wpc       - where the loop is: idle, poll, sleep, returned, raised    *)
(*   task      - the status of the task on the server                      *)
(*   elapsed, last_status - the locals of _wait_for_analysis               *)
(*   wresult   - its return value                                          *)
(*   requests  - history: the requests sent to the server                  *)
(***************************************************************************)
VARIABLES aargs, apc, subprocess, aclock, temp_file, pending, aresult, kills,
          wargs, wpc, task, elapsed, last_status, wresult, requests

agentVars == <<aargs, apc, subprocess, aclock, temp_file, pending, aresult, kills>>

waitVars == <<wargs, wpc, task, elapsed, last_status, wresult, requests>>

ioVars == <<agentVars, waitVars>>

keyVars == <<configKey, original_project_key>>

vars == <<vcsVars, repo, fixVars, branchVars, ioVars>>

\* process: no subprocess was created
NoProcess == [state |-> "none", returncode |-> -1]

\* no agent invocation and no wait for the analysis is in progress
IdleIo ==
    /\ aargs = [tool |-> "claude", timeout |-> 1, available |-> TRUE, file_exists |-> TRUE]
    /\ apc = "idle"
    /\ subprocess = NoProcess
    /\ aclock = 0
    /\ temp_file = FALSE
    /\ pending = ""
    /\ aresult = [success |-> FALSE, error_message |-> "none"]
    /\ kills = 0
    /\ wargs = [timeout |-> 2]
    /\ wpc = "idle"
    /\ task = "PENDING"
    /\ elapsed = 0
    /\ last_status = "None"
    /\ wresult = FALSE
    /\ requests = <<>>

\* A tracked, clean file or an untracked one.
CleanRepos ==
    {[head |-> [f \in Files |-> IF f \in T THEN 1 ELSE 0],
      index |-> [f \in Files |-> IF f \in T THEN 1 ELSE 0],
      wt |-> [f \in Files |-> 1],
      commits |-> 0] : T \in SUBSET Files}

\* The files argument: files=None is [auto |-> TRUE], a list is its set.
FileArgs == {[auto |-> TRUE, files |-> {}]} \cup
            {[auto |-> FALSE, files |-> S] : S \in SUBSET Files}

\* ---- git: GitPython's view of the repository ----

\* repo.index.diff(None): tracked files whose working copy differs from the index
IndexDiffNone(r) == {f \in Files : r.index[f] # 0 /\ r.wt[f] # r.index[f]}

\* repo.index.diff("HEAD"): entries of the index that differ from HEAD
IndexDiffHead(r) == {f \in Files : r.index[f] # r.head[f]}

\* repo.untracked_files
UntrackedFiles(r) == {f \in Files : r.index[f] = 0 /\ r.head[f] = 0 /\ r.wt[f] # 0}

\* GitManager.get_modified_or_staged_files / get_all_modified_files
GitModifiedOrStaged(r) == IndexDiffNone(r) \cup IndexDiffHead(r)

\* GitManager.require_clean_working_directory: it raises
\* DirtyWorkingDirectoryError iff this holds
require_clean_working_directory(r) == GitModifiedOrStaged(r) # {}

\* GitManager.has_uncommitted_changes(file_path)
GitHasUncommittedChanges(r, f) == f \in IndexDiffNone(r) \/ f \in IndexDiffHead(r)

\* repo.index.add(files)
IndexAdd(r, files) ==
    [r EXCEPT !.index = [f \in Files |-> IF f \in files THEN r.wt[f] ELSE r.index[f]]]

\* repo.index.commit(message): HEAD becomes the index, whatever it holds
IndexCommit(r) == [r EXCEPT !.head = r.index, !.commits = r.commits + 1]

\* A mutant: the empty-diff check is made after the commit instead of before it.
GitStageAndCommitCheckAfter(r, files, fault) ==
    LET staged == IF files # {} THEN IndexAdd(r, files) ELSE r
        done == IndexCommit(staged)
    IN  IF fault THEN [res |-> "commit_failed", repo |-> staged]
        ELSE IF IndexDiffHead(done) = {} THEN [res |-> "none", repo |-> done]
        ELSE [res |-> "id", repo |-> done]

\* A mutant: the empty-diff check is missing.
GitStageAndCommitNoCheck(r, files, fault) ==
    LET staged == IF files # {} THEN IndexAdd(r, files) ELSE r
    IN  IF fault THEN [res |-> "commit_failed", repo |-> staged]
        ELSE [res |-> "id", repo |-> IndexCommit(staged)]

\* GitManager._stage_and_commit; fault: the commit raises git.GitError
GitStageAndCommit(r, files, fault) ==
    LET staged == IF files # {} THEN IndexAdd(r, files) ELSE r
    IN  IF IndexDiffHead(staged) = {} THEN [res |-> "none", repo |-> staged]
        ELSE IF fault THEN [res |-> "commit_failed", repo |-> staged]
        ELSE [res |-> "id", repo |-> IndexCommit(staged)]

\* A mutant: an explicit empty list is staged and committed like any other.
GitCommitFixEmptyListAllowed(r, arg, fault) ==
    LET files == IF arg.auto THEN GitModifiedOrStaged(r) ELSE arg.files
    IN  IF arg.auto /\ files = {} /\ IndexDiffHead(r) = {}
        THEN [res |-> "none", repo |-> r]
        ELSE GitStageAndCommit(r, files, fault)

\* GitManager.commit_fix
GitCommitFix(r, arg, fault) ==
    IF ~arg.auto /\ arg.files = {} THEN [res |-> "no_files", repo |-> r]
    ELSE LET files == IF arg.auto THEN GitModifiedOrStaged(r) ELSE arg.files
         IN  IF arg.auto /\ files = {} /\ IndexDiffHead(r) = {}
             THEN [res |-> "none", repo |-> r]
             ELSE GitStageAndCommit(r, files, fault)

\* A mutant: auto-detection finding nothing does not raise.
GitCreateCommitNoRaise(r, arg, untracked, fault) ==
    LET files == IF arg.auto
                 THEN GitModifiedOrStaged(r) \cup (IF untracked THEN UntrackedFiles(r) ELSE {})
                 ELSE arg.files
    IN  GitStageAndCommit(r, files, fault)

\* GitManager.create_commit
GitCreateCommit(r, arg, untracked, fault) ==
    LET files == IF arg.auto
                 THEN GitModifiedOrStaged(r) \cup (IF untracked THEN UntrackedFiles(r) ELSE {})
                 ELSE arg.files
    IN  IF files = {} THEN [res |-> "no_files", repo |-> r]
        ELSE GitStageAndCommit(r, files, fault)

\* ---- Mercurial: hglib's view of the repository ----

\* status codes of client.status()
HgModified(r) == {f \in Files : r.head[f] # 0 /\ r.wt[f] # r.head[f]}
HgAdded(r) == {f \in Files : r.head[f] = 0 /\ r.index[f] # 0}
HgUnknown(r) == {f \in Files : r.head[f] = 0 /\ r.index[f] = 0 /\ r.wt[f] # 0}

\* MercurialManager.get_modified_or_staged_files: status in "MAR"
HgModifiedOrStaged(r) == HgModified(r) \cup HgAdded(r)

\* client.add(files): an unknown file becomes added, a tracked one is left alone
HgAdd(r, files) ==
    [r EXCEPT !.index = [f \in Files |-> IF f \in files /\ f \in HgUnknown(r)
                                          THEN r.wt[f] ELSE r.index[f]]]

\* client.commit(message): every modified or added file goes into the changeset
HgCommit(r) ==
    LET c == HgModifiedOrStaged(r)
    IN  [r EXCEPT !.head = [f \in Files |-> IF f \in c THEN r.wt[f] ELSE r.head[f]],
                  !.index = [f \in Files |-> IF f \in c THEN r.wt[f] ELSE r.index[f]],
                  !.commits = r.commits + 1]

\* MercurialManager._stage_and_commit; fault: the commit raises CommandError
HgStageAndCommit(r, files, fault) ==
    LET staged == IF files # {} THEN HgAdd(r, files) ELSE r
    IN  IF HgModifiedOrStaged(staged) = {} THEN [res |-> "none", repo |-> staged]
        ELSE IF fault THEN [res |-> "commit_failed", repo |-> staged]
        ELSE [res |-> "id", repo |-> HgCommit(staged)]

\* MercurialManager.commit_fix
HgCommitFix(r, arg, fault) ==
    IF ~arg.auto /\ arg.files = {} THEN [res |-> "no_files", repo |-> r]
    ELSE LET files == IF arg.auto THEN HgModifiedOrStaged(r) ELSE arg.files
         IN  IF arg.auto /\ files = {} /\ HgUnknown(r) = {}
             THEN [res |-> "none", repo |-> r]
             ELSE HgStageAndCommit(r, files, fault)

\* MercurialManager.create_commit
HgCreateCommit(r, arg, untracked, fault) ==
    LET files == IF arg.auto
                 THEN HgModifiedOrStaged(r) \cup (IF untracked THEN HgUnknown(r) ELSE {})
                 ELSE arg.files
    IN  IF files = {} THEN [res |-> "no_files", repo |-> r]
        ELSE HgStageAndCommit(r, files, fault)

\* ---- the adapter as its callers see it ----

commit_fix(b, r, arg, fault) ==
    IF b = "git" THEN GitCommitFix(r, arg, fault) ELSE HgCommitFix(r, arg, fault)

create_commit(b, r, arg, untracked, fault) ==
    IF b = "git" THEN GitCreateCommit(r, arg, untracked, fault)
    ELSE HgCreateCommit(r, arg, untracked, fault)

\* What a call would have to commit: the files it names (or, auto-detecting,
\* the tracked files, plus the untracked ones when asked) that differ from HEAD.
DiffersFromHead(r, arg, untracked) ==
    LET scope == IF arg.auto
                 THEN {f \in Files : r.index[f] # 0 \/ r.head[f] # 0}
                      \cup (IF untracked THEN Files ELSE {})
                 ELSE arg.files
    IN  \E f \in scope : r.wt[f] # r.head[f]

\* The outcomes of a call are "id" (a commit id), "none" (None) and
\* VCSOperationError with one of its two messages: "no_files" ("No files to
\* commit") and "commit_failed" ("Failed to create commit: ...").

NoCall == [op |-> "none", arg |-> [auto |-> TRUE, files |-> {}], untracked |-> FALSE,
           res |-> "none", preDiff |-> FALSE, moved |-> FALSE, first |-> "n/a",
           emptyList |-> FALSE]

\* The file list a call works on: the one it is given or, with files=None,
\* get_all_modified_files() extended by the untracked files when asked.
FileList(b, r, arg, untracked) ==
    IF ~arg.auto THEN arg.files
    ELSE IF b = "git"
         THEN GitModifiedOrStaged(r) \cup (IF untracked THEN UntrackedFiles(r) ELSE {})
         ELSE HgModifiedOrStaged(r) \cup (IF untracked THEN HgUnknown(r) ELSE {})

\* The record of a call: its arguments and outcome, whether what it names
\* differed from HEAD before it, whether HEAD moved, when it repeats the
\* call before it with nothing written in between, that call's outcome, and
\* whether its file list was empty.
Record(op, arg, untracked, res, out) ==
    [op |-> op, arg |-> arg, untracked |-> untracked, res |-> res,
     preDiff |-> DiffersFromHead(repo, arg, untracked),
     moved |-> out.repo.commits # repo.commits,
     first |-> IF lastCall.op = op /\ lastCall.arg = arg /\ lastCall.untracked = untracked
               THEN lastCall.res ELSE "n/a",
     emptyList |-> FileList(backend, repo, arg, untracked) = {}]

(***************************************************************************)
(* Findings and the Finding Processor (processor/issue_processor.py)       *)
(***************************************************************************)
\* findings the analysis server reports for one file
MaxIssues == 2
\* the largest max_issues a caller of fix_file passes (0 stands for None)
MaxCap == 1

NotFound == <<[key |-> 0, line |-> 0, status |-> "NOT_FOUND", severity |-> "INFO"]>>

TerminalStatuses == {"RESOLVED", "CLOSED", "WONTFIX", "FALSE-POSITIVE", "ACCEPTED"}

\* A mutant: the status of the finding is not looked at.
is_fixable_any_status(i) == i.line # 0

\* SonarQubeIssue.is_fixable; line 0 stands for line=None
is_fixable(i) == i.line # 0 /\ i.status \notin TerminalStatuses

\* IssueProcessor._severity_rank, with .get(..., 0)
severity_rank(sev) ==
    CASE sev = "BLOCKER" -> 5
      [] sev = "CRITICAL" -> 4
      [] sev = "MAJOR" -> 3
      [] sev = "MINOR" -> 2
      [] sev = "INFO" -> 1
      [] OTHER -> 0

RECURSIVE InsertByLine(_, _)
\* where list.sort(key=line, reverse=True), a stable sort, puts x in a sorted s
InsertByLine(x, s) ==
    IF s = <<>> THEN <<x>>
    ELSE IF Head(s).line >= x.line THEN <<Head(s)>> \o InsertByLine(x, Tail(s))
    ELSE <<x>> \o s

RECURSIVE SortDescending(_)
SortDescending(s) ==
    IF s = <<>> THEN <<>>
    ELSE InsertByLine(s[Len(s)], SortDescending(SubSeq(s, 1, Len(s) - 1)))

HasLine(i) == i.line # 0
HasNoLine(i) == i.line = 0

\* A mutant: the findings are left in the order of the input.
sort_by_line_unsorted(s) == s

\* IssueProcessor._sort_by_line_descending
sort_by_line_descending(s) ==
    SortDescending(SelectSeq(s, HasLine)) \o SelectSeq(s, HasNoLine)

\* A mutant: the findings at or below the threshold are the ones kept.
meets_threshold_reversed(i, min_severity) ==
    severity_rank(i.severity) <= severity_rank(min_severity)

\* _severity_rank.get(issue.severity or "INFO", 0) >= min_rank
meets_threshold(i, min_severity) ==
    severity_rank(i.severity) >= severity_rank(min_severity)

\* A mutant: the cut keeps one entry more than the cap.
limit_issues_one_more(sorted, max_issues) ==
    IF max_issues # 0 /\ max_issues > 0
    THEN SubSeq(sorted, 1, IF max_issues + 1 < Len(sorted) THEN max_issues + 1 ELSE Len(sorted))
    ELSE sorted

\* if self.max_issues and self.max_issues > 0: sorted_issues[: self.max_issues]
limit_issues(sorted, max_issues) ==
    IF max_issues # 0 /\ max_issues > 0
    THEN SubSeq(sorted, 1, IF max_issues < Len(sorted) THEN max_issues ELSE Len(sorted))
    ELSE sorted

\* A mutant: skipped is counted against the fixable findings, before the cap.
ProcessingResultSkippedBeforeCap(issues, fixable, sorted_issues) ==
    [total_issues |-> Len(issues),
     fixable_issues |-> Len(fixable),
     skipped_issues |-> Len(issues) - Len(fixable),
     issues_to_fix |-> sorted_issues]

\* the ProcessingResult that process returns
ProcessingResult(issues, fixable, sorted_issues) ==
    [total_issues |-> Len(issues),
     fixable_issues |-> Len(fixable),
     skipped_issues |-> Len(issues) - Len(sorted_issues),
     issues_to_fix |-> sorted_issues]

\* IssueProcessor.process
process(issues, min_severity, max_issues) ==
    LET MeetsThreshold(i) == meets_threshold(i, min_severity)
        fixable1 == SelectSeq(issues, is_fixable)
        fixable == IF min_severity # "" THEN SelectSeq(fixable1, MeetsThreshold) ELSE fixable1
        sorted == sort_by_line_descending(fixable)
        capped == limit_issues(sorted, max_issues)
    IN  ProcessingResult(issues, fixable, capped)

\* The findings a server answers with in the single-file runs: a fixable one
\* at each of two lines and severities, one without a line, a resolved one.
IssueKinds ==
    {[line |-> 1, status |-> "OPEN", severity |-> "MAJOR"],
     [line |-> 2, status |-> "OPEN", severity |-> "INFO"],
     [line |-> 2, status |-> "OPEN", severity |-> "MAJOR"],
     [line |-> 0, status |-> "OPEN", severity |-> "MAJOR"],
     [line |-> 1, status |-> "RESOLVED", severity |-> "MAJOR"]}

WithKeys(ks) ==
    [i \in 1..Len(ks) |-> [key |-> i, line |-> ks[i].line, status |-> ks[i].status,
                           severity |-> ks[i].severity]]

IssueLists(kinds, n) ==
    UNION {{WithKeys(ks) : ks \in [1..k -> kinds]} : k \in 0..n}

(***************************************************************************)
(* cleanup_branch                                                          *)
(***************************************************************************)
\* the largest max_iterations a caller passes
MaxIter == 2

\* the glob patterns a caller passes
Patterns == {"*.py"}

\* Path.match(pattern) for the files and patterns of the model
Matches(f, p) == (f = "a.py" /\ p = "*.py") \/ (f = "b.ts" /\ p = "*.ts")

\* the modified files in the order the branch analyzer lists them
FileOrder == <<"a.py", "b.ts">>

InSet(S) == LET Keep(f) == f \in S IN SelectSeq(FileOrder, Keep)

\* CleanupOrchestrator._filter_files
filter_files(files, patterns) ==
    LET Keep(f) == \E p \in patterns : Matches(f, p) IN SelectSeq(files, Keep)

\* CleanupOrchestrator._validate_and_filter_files
validate_and_filter_files(files, patterns) ==
    IF files = <<>> THEN <<>>
    ELSE IF patterns # {} THEN filter_files(files, patterns)
    ELSE files

\* FileCleanupResult; error_message 0 stands for None, k > 0 for
\* "Fixes failed at iteration k"
FileCleanupResult(f, fixed, ok, err) ==
    [file_path |-> f, issues_fixed |-> fixed, success |-> ok, error_message |-> err]

\* list(file_results_map.values()): a dict keeps insertion order
Values(m, files) == [i \in 1..Len(files) |-> m[files[i]]]

RECURSIVE SumFixed(_)
\* sum(f.issues_fixed for f in files_processed)
SumFixed(s) == IF s = <<>> THEN 0 ELSE Head(s).issues_fixed + SumFixed(Tail(s))

NoCleanupResult ==
    [kind |-> "none", success |-> FALSE, files_processed |-> <<>>, temp_project |-> FALSE,
     total_issues_fixed |-> 0, error_iteration |-> 0, error_message |-> ""]

\* the CleanupResult returned when nothing is modified
EmptyResult ==
    [kind |-> "empty", success |-> TRUE, files_processed |-> <<>>, temp_project |-> FALSE,
     total_issues_fixed |-> 0, error_iteration |-> 0, error_message |-> ""]

\* A mutant: the failure result is built from the local list, which is only
\* filled after the loop.
AnalysisFailedResultLocalList(m, files, local, it) ==
    [kind |-> "analysis_failed", success |-> FALSE, files_processed |-> local,
     temp_project |-> TRUE, total_issues_fixed |-> 0, error_iteration |-> it + 1,
     error_message |-> "Analysis failed"]

\* the CleanupResult returned when the analysis refresh reports failure
AnalysisFailedResult(m, files, local, it) ==
    [kind |-> "analysis_failed", success |-> FALSE, files_processed |-> Values(m, files),
     temp_project |-> TRUE, total_issues_fixed |-> 0, error_iteration |-> it + 1,
     error_message |-> "Analysis failed"]

\* A mutant: leaving the loop is reported as a failure.
SuccessResultAsFailure(m, files) ==
    [kind |-> "ok", success |-> FALSE, files_processed |-> Values(m, files),
     temp_project |-> TRUE, total_issues_fixed |-> SumFixed(Values(m, files)),
     error_iteration |-> 0, error_message |-> ""]

\* the CleanupResult returned after the loop
SuccessResult(m, files) ==
    [kind |-> "ok", success |-> TRUE, files_processed |-> Values(m, files),
     temp_project |-> TRUE, total_issues_fixed |-> SumFixed(Values(m, files)),
     error_iteration |-> 0, error_message |-> ""]

\* the CleanupResult the except clause returns
ExceptionResult(local, tp, e) ==
    [kind |-> "exception", success |-> FALSE, files_processed |-> local,
     temp_project |-> tp, total_issues_fixed |-> 0, error_iteration |-> 0,
     error_message |-> e]

\* A mutant: range(max_iterations + 1)
LoopContinuesOneMore(it, max) == it <= max

\* for iteration in range(max_iterations)
LoopContinues(it, max) == it < max

\* A mutant: the delete is issued whether or not a project was created.
DeletesIssuedAlways(tp) == 1

\* _cleanup_temp_project: delete_project is called iff temp_project is set
DeletesIssued(tp) == IF tp THEN 1 ELSE 0

\* len(fixable_issues) of one file; a missing component is no finding
CountFixable(issues) == IF issues = NotFound THEN 0 ELSE Len(SelectSeq(issues, is_fixable))

\* What the server holds for one file after an analysis of a branch run:
\* no finding, one open finding or one resolved finding.
BranchFindings ==
    {<<>>,
     <<[key |-> 1, line |-> 1, status |-> "OPEN", severity |-> "MAJOR"]>>,
     <<[key |-> 1, line |-> 1, status |-> "RESOLVED", severity |-> "MAJOR"]>>}

\* the process has not exited
Running == -1

NoCalls == [found |-> 0, create |-> 0, delete |-> 0, analysis |-> 0, passes |-> 0,
            delete_failed |-> FALSE]

IdleBranch ==
    /\ bpc = "idle"
    /\ bargs = [max_iterations |-> 1, file_patterns |-> {}]
    /\ modified_files = <<>>
    /\ temp_project = FALSE
    /\ file_results_map = [f \in {} |-> 0]
    /\ files_processed = <<>>
    /\ iteration = 0
    /\ analysis_ok = TRUE
    /\ total_fixable = 0
    /\ files_with_issues = <<>>
    /\ cidx = 0
    /\ widx = 0
    /\ configKey = "base"
    /\ original_project_key = "base"
    /\ berr = ""
    /\ bresult = NoCleanupResult
    /\ calls = NoCalls
    /\ ghostFixed = [f \in Files |-> 0]
    /\ passLog = <<>>
    /\ broke = FALSE
    /\ exit_code = Running

(***************************************************************************)
(* fix_file                                                                *)
(***************************************************************************)
\* FixSummary(total_issues=t)
FixSummary(t, sk) == [total_issues |-> t, fixed |-> 0, failed |-> 0, skipped |-> sk,
                      commits |-> <<>>]

\* FixSummary.has_failures
has_failures(s) == s.failed > 0

NoFixResult == [success |-> FALSE, files_modified |-> {}]
NoResult == [total_issues |-> 0, fixable_issues |-> 0, skipped_issues |-> 0,
             issues_to_fix |-> <<>>]
NoArgs == [file_path |-> "a.py", dry_run |-> FALSE, max_issues |-> 0, min_severity |-> ""]

\* What one run of fix_file has done so far, for the record:
\*   pre      - what the preconditions were found to be (<<>> before the check)
\*   fetched  - get_issues_for_file has been called
\*   answer   - what was typed at the confirmation prompt ("" when not asked)
\*   rendered - the summaries _display_summary has printed
NoLog == [pre |-> <<>>, fetched |-> FALSE, answer |-> "", rendered |-> <<>>]

IdleFix ==
    /\ sonar = [f \in Files |-> <<>>]
    /\ fpc = "idle"
    /\ fargs = NoArgs
    /\ fissues = <<>>
    /\ fresult = NoResult
    /\ fidx = 0
    /\ fixres = NoFixResult
    /\ summary = FixSummary(0, 0)
    /\ ferr = ""
    /\ attempts = <<>>
    /\ flog = NoLog

\* What the external agent can do with one finding:
\*   fixed   - edits the target file, reports it
\*   noop    - reports success and the target file, changes nothing
\*   nofiles - reports success with an empty files_modified (the field's default)
\*   extra   - edits the target and the other files, reports only the target
\*   fail    - reports failure
\*   raise   - fix_issue raises
AgentOutcomes == {"fixed", "noop", "nofiles", "extra", "fail", "raise"}

Raise(msg) ==
    /\ fpc' = "raised"
    /\ ferr' = msg

Return(s) ==
    /\ fpc' = "returned"
    /\ summary' = s

\* A mutant: the availability of the agent is not checked.
validate_preconditions_no_tool_check(r, file_path, dry_run, isRepo, exists, available) ==
    IF ~isRepo THEN "Not a Git repository"
    ELSE IF ~exists THEN "File not found"
    ELSE IF ~dry_run /\ GitHasUncommittedChanges(r, file_path) THEN "uncommitted changes"
    ELSE ""

\* _validate_preconditions: the message of the error it raises, "" for none
validate_preconditions(r, file_path, dry_run, isRepo, exists, available) ==
    IF ~isRepo THEN "Not a Git repository"
    ELSE IF ~exists THEN "File not found"
    ELSE IF ~dry_run /\ GitHasUncommittedChanges(r, file_path) THEN "uncommitted changes"
    ELSE IF ~available THEN "AI tool is not available"
    ELSE ""

\* fix_file, step 1: _validate_preconditions
FValidate(isRepo, exists, available) ==
    /\ fpc = "validate"
    /\ LET e == validate_preconditions(repo, fargs.file_path, fargs.dry_run,
                                       isRepo, exists, available)
       IN  IF e # "" THEN Raise(e) ELSE fpc' = "fetch" /\ UNCHANGED ferr
    /\ flog' = [flog EXCEPT !.pre =
                   <<[isRepo |-> isRepo, exists |-> exists, available |-> available,
                      dirty |-> GitHasUncommittedChanges(repo, fargs.file_path)]>>]
    /\ UNCHANGED <<ioVars, vcsVars, branchVars, repo, sonar, fargs, fissues, fresult, fidx, fixres, summary, attempts>>

\* fix_file, step 2: get_issues_for_file; an empty answer returns at once
FFetch(ok) ==
    /\ fpc = "fetch"
    /\ IF ~ok THEN
            Raise("SonarQubeAPIError") /\ UNCHANGED <<fissues, summary>>
       ELSE IF sonar[fargs.file_path] = NotFound THEN
            Raise("ComponentNotFoundError") /\ UNCHANGED <<fissues, summary>>
       ELSE IF sonar[fargs.file_path] = <<>> THEN
            Return(FixSummary(0, 0)) /\ UNCHANGED <<fissues, ferr>>
       ELSE /\ fissues' = sonar[fargs.file_path]
            /\ fpc' = "process"
            /\ UNCHANGED <<summary, ferr>>
    /\ flog' = [flog EXCEPT !.fetched = TRUE]
    /\ UNCHANGED <<ioVars, vcsVars, branchVars, repo, sonar, fargs, fresult, fidx, fixres, attempts>>

\* fix_file, step 3: IssueProcessor.process; nothing to fix returns; a dry
\* run goes on to the fixing, any other run asks for confirmation first
FProcess ==
    /\ fpc = "process"
    /\ LET result == process(fissues, fargs.min_severity, fargs.max_issues)
       IN  /\ fresult' = result
           /\ IF result.issues_to_fix = <<>> THEN
                   /\ Return(FixSummary(result.total_issues, result.skipped_issues))
                   /\ UNCHANGED fidx
              ELSE IF fargs.dry_run THEN
                   /\ fpc' = "agent"
                   /\ fidx' = 1
                   /\ summary' = FixSummary(0, 0)
              ELSE /\ fpc' = "confirm"
                   /\ UNCHANGED <<fidx, summary>>
    /\ UNCHANGED <<ioVars, vcsVars, branchVars, repo, sonar, fargs, fissues, fixres, ferr, attempts, flog>>

\* A mutant: every answer that is typed counts as a yes.
confirm_processing_any(answer) == TRUE

\* _confirm_processing: response in ["y", "yes"]
confirm_processing(answer) == answer = "yes"

\* fix_file, step 4: _confirm_processing reads the answer from input(), which
\* raises EOFError at the end of the input
FConfirm(answer) ==
    /\ fpc = "confirm"
    /\ flog' = [flog EXCEPT !.answer = answer]
    /\ IF answer = "eof" THEN
            Raise("EOFError") /\ UNCHANGED <<fidx, summary>>
       ELSE IF ~confirm_processing(answer) THEN
            /\ Return(FixSummary(fresult.total_issues, Len(fresult.issues_to_fix)))
            /\ UNCHANGED <<fidx, ferr>>
       ELSE /\ fpc' = "agent"
            /\ fidx' = 1
            /\ summary' = FixSummary(0, 0)
            /\ UNCHANGED ferr
    /\ UNCHANGED <<ioVars, vcsVars, branchVars, repo, sonar, fargs, fissues, fresult, fixres, attempts>>

Attempt(issue, agent, commit) ==
    [key |-> issue.key, line |-> issue.line, agent |-> agent, commit |-> commit]

\* A mutant: a failure is tallied twice.
TallyFailureTwice(s) == [s EXCEPT !.failed = s.failed + 2]

\* summary.failed += 1
TallyFailure(s) == [s EXCEPT !.failed = s.failed + 1]

\* A mutant: a dry run commits as well.
commits_fix_always(dry_run) == TRUE

\* if not dry_run: the fix is committed
commits_fix(dry_run) == ~dry_run

\* A mutant: the loop walks the worklist from its end.
enumerate_issues_reversed(issues, idx) == issues[Len(issues) - idx + 1]

\* for idx, issue in enumerate(issues, 1): the issue of round idx
enumerate_issues(issues, idx) == issues[idx]

\* _process_issues, the agent call of one loop round: ai_tool.fix_issue
FAgent(outcome, c) ==
    /\ fpc = "agent"
    /\ fidx <= Len(fresult.issues_to_fix)
    /\ LET issue == enumerate_issues(fresult.issues_to_fix, fidx)
           target == fargs.file_path
           edited == CASE outcome = "fixed" -> {target}
                       [] outcome = "extra" -> Files
                       [] OTHER -> {}
       IN  /\ \A f \in edited : repo.wt[f] # c
           /\ repo' = [repo EXCEPT !.wt = [f \in Files |-> IF f \in edited THEN c
                                                            ELSE repo.wt[f]]]
           /\ attempts' = Append(attempts, Attempt(issue, outcome, "n/a"))
           /\ IF outcome = "raise" THEN
                   Raise("agent raised") /\ UNCHANGED <<fixres, summary, fidx>>
              ELSE IF outcome = "fail" THEN
                   \* else branch of `if fix_result.success`
                   /\ summary' = TallyFailure(summary)
                   /\ fidx' = fidx + 1
                   /\ UNCHANGED <<fpc, fixres, ferr>>
              ELSE IF ~commits_fix(fargs.dry_run) THEN
                   /\ summary' = [summary EXCEPT !.fixed = summary.fixed + 1]
                   /\ fidx' = fidx + 1
                   /\ UNCHANGED <<fpc, fixres, ferr>>
              ELSE /\ fixres' = [success |-> TRUE,
                                 files_modified |-> IF outcome = "nofiles" THEN {}
                                                    ELSE {target}]
                   /\ fpc' = "commit"
                   /\ UNCHANGED <<summary, fidx, ferr>>
    /\ UNCHANGED <<ioVars, vcsVars, branchVars, sonar, fargs, fissues, fresult, flog>>

\* A mutant: a commit_fix that raises is tallied like one that returns.
TallyCommitRaiseAsFixed(s, out) ==
    [s EXCEPT !.commits = Append(s.commits, out.repo.commits), !.fixed = s.fixed + 1]

\* _process_issues, what the try block around commit_fix does to the summary:
\* the returned value (a commit id, or 0 for None) is appended to commits and
\* fixed is incremented; an exception increments failed.
TallyCommit(s, out) ==
    IF out.res \in {"id", "none"}
    THEN [s EXCEPT !.commits = Append(s.commits, IF out.res = "id" THEN out.repo.commits ELSE 0),
                   !.fixed = s.fixed + 1]
    ELSE TallyFailure(s)

\* _process_issues, the commit of one loop round: git_manager.commit_fix
FCommit(fault) ==
    /\ fpc = "commit"
    /\ LET out == GitCommitFix(repo, [auto |-> FALSE, files |-> fixres.files_modified], fault)
           last == attempts[Len(attempts)]
       IN  /\ repo' = out.repo
           /\ summary' = TallyCommit(summary, out)
           /\ attempts' = [attempts EXCEPT ![Len(attempts)] = [last EXCEPT !.commit = out.res]]
    /\ fidx' = fidx + 1
    /\ fpc' = "agent"
    /\ UNCHANGED <<ioVars, vcsVars, branchVars, sonar, fargs, fissues, fresult, fixres, ferr, flog>>

\* fix_file, steps 5-6 after the loop: total and skipped are set from the
\* ProcessingResult, the summary is displayed and returned
FSummarize ==
    /\ fpc = "agent"
    /\ fidx > Len(fresult.issues_to_fix)
    /\ Return([summary EXCEPT !.total_issues = fresult.total_issues,
                              !.skipped = fresult.skipped_issues])
    /\ flog' = [flog EXCEPT !.rendered = Append(flog.rendered, summary')]
    /\ UNCHANGED <<ioVars, vcsVars, branchVars, repo, sonar, fargs, fissues, fresult, fidx, fixres, ferr, attempts>>

NextFixFile ==
    \/ \E r, e, a \in BOOLEAN : FValidate(r, e, a)
    \/ \E ok \in BOOLEAN : FFetch(ok)
    \/ FProcess
    \/ \E answer \in {"yes", "no", "eof"} : FConfirm(answer)
    \/ \E o \in AgentOutcomes, c \in Contents : FAgent(o, c)
    \/ \E fault \in BOOLEAN : FCommit(fault)
    \/ FSummarize

\* The repositories fix_file is started in: the target file is tracked; every
\* tracked file is clean or modified in the working tree; the other files
\* may be untracked.
FixRepos(target) ==
    UNION {{[r EXCEPT !.wt = w] :
                w \in {v \in [Files -> Contents] : \A f \in Files : r.head[f] = 0 => v[f] = 1}} :
           r \in {x \in CleanRepos : x.head[target] # 0}}

\* One run of fix_file(file_path, dry_run, max_issues, min_severity).
InitFix ==
    /\ backend = "git"
    /\ lastCall = NoCall
    /\ IdleIo
    /\ fargs \in [file_path : {"a.py"}, dry_run : BOOLEAN, max_issues : 0..MaxCap,
                  min_severity : {"", "MAJOR"}]
    /\ repo \in FixRepos(fargs.file_path)
    /\ sonar \in [Files -> IssueLists(IssueKinds, MaxIssues) \cup {NotFound}]
    /\ \A f \in Files \ {fargs.file_path} : sonar[f] = <<>>
    /\ fpc = "validate"
    /\ fissues = <<>>
    /\ fresult = NoResult
    /\ fidx = 0
    /\ fixres = NoFixResult
    /\ summary = FixSummary(0, 0)
    /\ ferr = ""
    /\ attempts = <<>>
    /\ flog = NoLog
    /\ IdleBranch

SpecFix == InitFix /\ [][NextFixFile]_vars

InitVcs ==
    /\ backend \in {"git", "hg"}
    /\ repo \in CleanRepos
    /\ lastCall = NoCall
    /\ IdleIo
    /\ IdleFix
    /\ IdleBranch

\* A client calls commit_fix(issue, files, tool).
VcsCommitFix(arg, fault) ==
    /\ repo.commits < MaxCommits
    /\ LET out == commit_fix(backend, repo, arg, fault)
       IN  /\ repo' = out.repo
           /\ lastCall' = Record("commit_fix", arg, FALSE, out.res, out)
    /\ UNCHANGED <<ioVars, backend, fixVars, branchVars>>

\* A client calls create_commit(message, files, include_untracked).
VcsCreateCommit(arg, untracked, fault) ==
    /\ repo.commits < MaxCommits
    /\ LET out == create_commit(backend, repo, arg, untracked, fault)
       IN  /\ repo' = out.repo
           /\ lastCall' = Record("create_commit", arg, untracked, out.res, out)
    /\ UNCHANGED <<ioVars, backend, fixVars, branchVars>>

\* vibe_heal.git.manager.GitManager.is_clean (the manager cleanup/orchestrator.py
\* imports): not repo.is_dirty(untracked_files=True)
legacy_is_clean(r) == GitModifiedOrStaged(r) = {} /\ UntrackedFiles(r) = {}

\* vibe_heal.git.manager.GitManager.require_clean_working_directory: it raises
\* DirtyWorkingDirectoryError iff this holds
legacy_require_clean_working_directory(r) == ~legacy_is_clean(r)

\* MercurialManager.require_clean_working_directory: it raises iff this holds
hg_require_clean_working_directory(r) == HgModifiedOrStaged(r) # {}

\* A client calls require_clean_working_directory() of the manager it holds:
\* the one of vibe_heal.vcs for the backend, or the one of vibe_heal.git.manager.
VcsRequireClean(legacy) ==
    /\ legacy => backend = "git"
    /\ LET raises == IF legacy THEN legacy_require_clean_working_directory(repo)
                     ELSE IF backend = "git" THEN require_clean_working_directory(repo)
                     ELSE hg_require_clean_working_directory(repo)
       IN  lastCall' = [NoCall EXCEPT
                           !.op = IF legacy THEN "legacy_require_clean_working_directory"
                                  ELSE "require_clean_working_directory",
                           !.res = IF raises THEN "dirty" ELSE "ok"]
    /\ UNCHANGED <<ioVars, backend, repo, fixVars, branchVars>>

\* Somebody (the agent, the user) writes a file of the working tree.
VcsEdit(f, c) ==
    /\ repo.wt[f] # c
    /\ repo' = [repo EXCEPT !.wt[f] = c]
    /\ lastCall' = NoCall
    /\ UNCHANGED <<ioVars, backend, fixVars, branchVars>>

\* Somebody stages a file by hand (git add / hg add).
VcsStage(f) ==
    /\ repo' = IF backend = "git" THEN IndexAdd(repo, {f}) ELSE HgAdd(repo, {f})
    /\ repo' # repo
    /\ lastCall' = NoCall
    /\ UNCHANGED <<ioVars, backend, fixVars, branchVars>>

NextVcs ==
    \/ \E arg \in FileArgs, fault \in BOOLEAN : VcsCommitFix(arg, fault)
    \/ \E arg \in FileArgs, u \in BOOLEAN, fault \in BOOLEAN : VcsCreateCommit(arg, u, fault)
    \/ \E f \in Files, c \in Contents : VcsEdit(f, c)
    \/ \E f \in Files : VcsStage(f)
    \/ \E legacy \in BOOLEAN : VcsRequireClean(legacy)

SpecVcs == InitVcs /\ [][NextVcs]_vars

(***************************************************************************)
(* cleanup_branch, step by step                                            *)
(***************************************************************************)
\* what became of one file in the fix pass of iteration k (1-based)
PassEntry(f, outcome, k) == [file |-> f, outcome |-> outcome, iteration |-> k]

fixLocals == <<fissues, fresult, fidx, fixres, summary, ferr, attempts, flog>>

branchLoopVars == <<total_fixable, files_with_issues, cidx, widx>>

\* an exception propagates to the except clause of cleanup_branch
BRaise(e) ==
    /\ bpc' = "except"
    /\ berr' = e

\* A mutant: the run goes on with an empty list of files.
returns_at_once_never(files) == FALSE

\* if not modified_files: return CleanupResult(success=True, ...)
returns_at_once(files) == files = <<>>

\* step 1: _validate_and_filter_files; an empty list returns at once
BStart(modified, raises) ==
    /\ bpc = "start"
    /\ IF raises THEN
            BRaise("Git error") /\ UNCHANGED <<modified_files, bresult, calls>>
       ELSE LET files == validate_and_filter_files(InSet(modified), bargs.file_patterns)
            IN  /\ modified_files' = files
                /\ calls' = [calls EXCEPT !.found = Len(InSet(modified))]
                /\ IF returns_at_once(files)
                   THEN bresult' = EmptyResult /\ bpc' = "finally"
                   ELSE bpc' = "create" /\ UNCHANGED bresult
                /\ UNCHANGED berr
    /\ UNCHANGED <<ioVars, vcsVars, repo, fixVars, bargs, exit_code, temp_project, file_results_map,
                   files_processed, iteration, analysis_ok, branchLoopVars, keyVars,
                   ghostFixed, passLog, broke>>

\* step 2: _create_temp_project, then the tallies are initialised
BCreate(ok) ==
    /\ bpc = "create"
    /\ IF ok THEN
            /\ temp_project' = TRUE
            /\ calls' = [calls EXCEPT !.create = calls.create + 1]
            /\ file_results_map' =
                   [f \in {modified_files[i] : i \in 1..Len(modified_files)} |->
                        FileCleanupResult(f, 0, TRUE, 0)]
            /\ iteration' = 0
            /\ bpc' = IF LoopContinues(0, bargs.max_iterations) THEN "analysis" ELSE "after_loop"
            /\ UNCHANGED berr
       ELSE /\ BRaise("SonarQubeAPIError")
            /\ UNCHANGED <<temp_project, calls, file_results_map, iteration>>
    /\ UNCHANGED <<ioVars, vcsVars, repo, fixVars, bargs, exit_code, modified_files, files_processed,
                   analysis_ok, branchLoopVars, keyVars, bresult, ghostFixed, passLog, broke>>

\* step 3, the analysis refresh of one iteration: analysis_runner.run_analysis
\* reports success (the server then holds fresh findings) or failure
BAnalysis(ok, findings) ==
    /\ bpc = "analysis"
    /\ calls' = [calls EXCEPT !.analysis = calls.analysis + 1]
    /\ analysis_ok' = ok
    \* the whole repository is analysed, but only the findings of the modified
    \* files are ever queried: the others are left out of the state
    /\ \A f \in Files : (~ok \/ \A i \in DOMAIN modified_files : modified_files[i] # f)
                              => findings[f] = <<>>
    /\ IF ok THEN
            /\ sonar' = findings
            /\ bpc' = "check"
            /\ cidx' = 1
            /\ total_fixable' = 0
            /\ files_with_issues' = <<>>
            /\ passLog' = <<>>
            /\ UNCHANGED bresult
       ELSE /\ bresult' = AnalysisFailedResult(file_results_map, modified_files,
                                               files_processed, iteration)
            /\ bpc' = "finally"
            /\ UNCHANGED <<sonar, cidx, total_fixable, files_with_issues, passLog>>
    /\ UNCHANGED <<ioVars, vcsVars, repo, fpc, fargs, fixLocals, bargs, exit_code, modified_files, temp_project,
                   file_results_map, files_processed, iteration, widx, keyVars, berr,
                   ghostFixed, broke>>

\* the key a step holds as original_project_key: read from the configuration
\* when the step is entered, kept while it goes through its files
saved_project_key(entering) == IF entering THEN configKey ELSE original_project_key

\* the configuration and the client point to the temporary project
override_project_key(tp) == "temp"

\* A mutant: the finally clause leaves the temporary key in place.
restore_project_key_skipped(original) == "temp"

\* finally: the configuration and the client get the saved key back
restore_project_key(original) == original

\* _check_files_for_issues, one round of its loop: the query for one file
\* answers, raises ComponentNotFoundError (a file without findings may be
\* unknown to the server; it then counts for nothing) or raises another
\* error; after the last file the key is restored and the loop either breaks
\* or goes on to the fix step
BCheckFile(answer) ==
    /\ bpc = "check"
    /\ cidx <= Len(modified_files)
    /\ answer = "not_found" => sonar[modified_files[cidx]] = <<>>
    /\ IF answer = "error" THEN
            /\ BRaise("SonarQubeAPIError")
            /\ configKey' = restore_project_key(saved_project_key(cidx = 1))
            /\ original_project_key' = saved_project_key(cidx = 1)
            /\ UNCHANGED <<branchLoopVars, broke>>
       ELSE LET f == modified_files[cidx]
                n == CountFixable(IF answer = "not_found" THEN NotFound ELSE sonar[f])
                total == total_fixable + n
            IN  /\ total_fixable' = total
                /\ files_with_issues' = IF n > 0 THEN Append(files_with_issues, f)
                                        ELSE files_with_issues
                /\ cidx' = cidx + 1
                /\ original_project_key' = saved_project_key(cidx = 1)
                /\ IF cidx < Len(modified_files) THEN
                        /\ configKey' = override_project_key(temp_project)
                        /\ UNCHANGED <<bpc, widx, broke>>
                   ELSE /\ configKey' = restore_project_key(saved_project_key(cidx = 1))
                        /\ IF total = 0
                           THEN bpc' = "after_loop" /\ broke' = TRUE /\ UNCHANGED widx
                           ELSE bpc' = "fix" /\ widx' = 1 /\ UNCHANGED broke
                /\ UNCHANGED berr
    /\ UNCHANGED <<ioVars, vcsVars, repo, fixVars, bargs, exit_code, modified_files, temp_project,
                   file_results_map, files_processed, iteration, analysis_ok, bresult,
                   calls, ghostFixed, passLog>>

\* _fix_files_with_issues, one round of its loop up to the call of fix_file:
\* the issues are fetched again, a VibeHealOrchestrator is constructed and
\* fix_file(file, max_issues=len(fixable), min_severity=None, dry_run=False) starts
BFixStart(fetchOk, ctorOk) ==
    /\ bpc = "fix"
    /\ widx <= Len(files_with_issues)
    /\ LET f == files_with_issues[widx]
       IN  IF ~fetchOk \/ ~ctorOk \/ sonar[f] = NotFound THEN
                /\ BRaise(IF ~fetchOk THEN "SonarQubeAPIError"
                          ELSE IF sonar[f] = NotFound THEN "ComponentNotFoundError"
                          ELSE "No AI tool found")
                /\ configKey' = restore_project_key(saved_project_key(widx = 1))
                /\ original_project_key' = saved_project_key(widx = 1)
                /\ passLog' = Append(passLog, PassEntry(f, "raised", iteration + 1))
                /\ UNCHANGED <<fpc, fargs, fixLocals>>
           ELSE /\ bpc' = "fix_file"
                /\ configKey' = override_project_key(temp_project)
                /\ original_project_key' = saved_project_key(widx = 1)
                /\ fpc' = "validate"
                /\ fargs' = [file_path |-> f, dry_run |-> FALSE,
                             max_issues |-> CountFixable(sonar[f]), min_severity |-> ""]
                /\ fissues' = <<>>
                /\ fresult' = NoResult
                /\ fidx' = 0
                /\ fixres' = NoFixResult
                /\ summary' = FixSummary(0, 0)
                /\ ferr' = ""
                /\ attempts' = <<>>
                /\ flog' = NoLog
                /\ UNCHANGED <<berr, passLog>>
    /\ UNCHANGED <<ioVars, vcsVars, repo, sonar, bargs, exit_code, modified_files, temp_project, file_results_map,
                   files_processed, iteration, analysis_ok, branchLoopVars, bresult, calls,
                   ghostFixed, broke>>

\* A mutant: the fixed count of a pass is not added to the file's tally.
issues_fixed_kept(current, fixed) == current

\* issues_fixed=current_result.issues_fixed + fix_summary.fixed
issues_fixed_added(current, fixed) == current + fixed

\* _fix_files_with_issues, the rest of the round: fix_file has returned its
\* summary (the file's tally is updated) or raised (nothing catches it here);
\* after the last file the key is restored and the iteration ends
BFixDone ==
    /\ bpc = "fix_file"
    /\ fpc \in {"returned", "raised"}
    \* the orchestrator and the locals of its fix_file are gone
    /\ fpc' = "idle"
    /\ fargs' = NoArgs
    /\ fissues' = <<>>
    /\ fresult' = NoResult
    /\ fidx' = 0
    /\ fixres' = NoFixResult
    /\ summary' = FixSummary(0, 0)
    /\ ferr' = ""
    /\ attempts' = <<>>
    /\ flog' = NoLog
    /\ LET f == fargs.file_path
           cur == file_results_map[f]
           failed == has_failures(summary)
       IN  IF fpc = "raised" THEN
                /\ BRaise(ferr)
                /\ configKey' = restore_project_key(original_project_key)
                /\ UNCHANGED original_project_key
                /\ passLog' = Append(passLog, PassEntry(f, "raised", iteration + 1))
                /\ UNCHANGED <<file_results_map, ghostFixed, widx, calls, iteration>>
           ELSE /\ file_results_map' =
                       [file_results_map EXCEPT ![f] =
                            FileCleanupResult(f, issues_fixed_added(cur.issues_fixed, summary.fixed),
                                              cur.success /\ ~failed,
                                              IF failed THEN iteration + 1 ELSE 0)]
                /\ ghostFixed' = [ghostFixed EXCEPT ![f] = ghostFixed[f] + summary.fixed]
                /\ passLog' = Append(passLog, PassEntry(f, IF failed THEN "failed" ELSE "ok",
                                                         iteration + 1))
                /\ UNCHANGED berr
                /\ IF widx < Len(files_with_issues) THEN
                        /\ widx' = widx + 1
                        /\ bpc' = "fix"
                        /\ UNCHANGED <<keyVars, calls, iteration>>
                   ELSE /\ configKey' = restore_project_key(original_project_key)
                        /\ UNCHANGED original_project_key
                        /\ calls' = [calls EXCEPT !.passes = calls.passes + 1]
                        /\ iteration' = iteration + 1
                        /\ bpc' = IF LoopContinues(iteration + 1, bargs.max_iterations)
                                  THEN "analysis" ELSE "after_loop"
                        /\ UNCHANGED widx
    /\ UNCHANGED <<ioVars, vcsVars, repo, sonar, bargs, exit_code, modified_files, temp_project,
                   files_processed, analysis_ok, total_fixable, files_with_issues, cidx,
                   bresult, broke>>

\* after the loop: the results are collected and the success result returned
BAfterLoop ==
    /\ bpc = "after_loop"
    /\ files_processed' = Values(file_results_map, modified_files)
    /\ bresult' = SuccessResult(file_results_map, modified_files)
    /\ bpc' = "finally"
    /\ UNCHANGED <<ioVars, vcsVars, repo, fixVars, bargs, exit_code, modified_files, temp_project,
                   file_results_map, iteration, analysis_ok, branchLoopVars, keyVars, berr,
                   calls, ghostFixed, passLog, broke>>

\* except Exception as e: the failure result is returned
BExcept ==
    /\ bpc = "except"
    /\ bresult' = ExceptionResult(files_processed, temp_project, berr)
    /\ bpc' = "finally"
    /\ UNCHANGED <<ioVars, vcsVars, repo, fixVars, bargs, exit_code, modified_files, temp_project,
                   file_results_map, files_processed, iteration, analysis_ok, branchLoopVars,
                   keyVars, berr, calls, ghostFixed, passLog, broke>>

\* A mutant: a failing delete is raised to the caller.
cleanup_temp_project_raising(tp, deleteOk) ==
    [deletes |-> DeletesIssued(tp), raises |-> tp /\ ~deleteOk]

\* _cleanup_temp_project: the deletes it issues and whether it raises; an
\* exception of delete_project is caught and printed as a warning
cleanup_temp_project(tp, deleteOk) ==
    [deletes |-> DeletesIssued(tp), raises |-> FALSE]

\* finally: _cleanup_temp_project, then the result goes to the caller
BFinally(deleteOk) ==
    /\ bpc = "finally"
    /\ temp_project \/ deleteOk
    /\ LET out == cleanup_temp_project(temp_project, deleteOk)
       IN  /\ calls' = [calls EXCEPT !.delete = calls.delete + out.deletes,
                                     !.delete_failed = ~deleteOk]
           /\ IF out.raises
              THEN bpc' = "crashed" /\ bresult' = NoCleanupResult
              ELSE bpc' = "done" /\ UNCHANGED bresult
    /\ UNCHANGED <<ioVars, vcsVars, repo, fixVars, bargs, exit_code, modified_files, temp_project,
                   file_results_map, files_processed, iteration, analysis_ok, branchLoopVars,
                   keyVars, berr, ghostFixed, passLog, broke>>

\* cli._display_cleanup_results: sys.exit(1) iff not result.success
display_cleanup_results(result) == IF ~result.success THEN 1 ELSE 0

\* the cleanup command, after cleanup_branch has returned: _run_cleanup
\* displays the result and the process exits
CliCleanupExit ==
    /\ bpc = "done"
    /\ exit_code = Running
    /\ exit_code' = display_cleanup_results(bresult)
    /\ UNCHANGED <<ioVars, vcsVars, repo, fixVars, bpc, bargs, modified_files, temp_project,
                   file_results_map, files_processed, iteration, analysis_ok, branchLoopVars,
                   keyVars, berr, bresult, calls, ghostFixed, passLog, broke>>

NextBranch ==
    \/ \E m \in SUBSET Files, raises \in BOOLEAN : BStart(m, raises)
    \/ \E ok \in BOOLEAN : BCreate(ok)
    \/ \E ok \in BOOLEAN,
          findings \in [Files -> BranchFindings] : BAnalysis(ok, findings)
    \/ \E answer \in {"ok", "not_found", "error"} : BCheckFile(answer)
    \/ \E fetchOk, ctorOk \in BOOLEAN : BFixStart(fetchOk, ctorOk)
    \/ BFixDone
    \/ BAfterLoop
    \/ BExcept
    \/ \E deleteOk \in BOOLEAN : BFinally(deleteOk)
    \/ CliCleanupExit

Next == NextBranch \/ NextFixFile

\* One run of cleanup_branch(max_iterations, file_patterns) in a clean
\* checkout of the branch.
Init ==
    /\ backend = "git"
    /\ lastCall = NoCall
    /\ IdleIo
    /\ repo \in {r \in CleanRepos : \A f \in Files : r.head[f] # 0}
    /\ IdleFix
    /\ bpc = "start"
    /\ bargs \in [max_iterations : 1..MaxIter, file_patterns : SUBSET Patterns]
    /\ modified_files = <<>>
    /\ temp_project = FALSE
    /\ file_results_map = [f \in {} |-> 0]
    /\ files_processed = <<>>
    /\ iteration = 0
    /\ analysis_ok = TRUE
    /\ total_fixable = 0
    /\ files_with_issues = <<>>
    /\ cidx = 0
    /\ widx = 0
    /\ configKey = "base"
    /\ original_project_key = "base"
    /\ berr = ""
    /\ bresult = NoCleanupResult
    /\ calls = NoCalls
    /\ ghostFixed = [f \in Files |-> 0]
    /\ passLog = <<>>
    /\ broke = FALSE
    /\ exit_code = Running

Spec == Init /\ [][Next]_vars

\* cleanup_branch runs on one thread from its first statement to its return:
\* whenever a step can be taken, one is.
FairSpec == Spec /\ WF_vars(Next)

(***************************************************************************)
(* dedupe_file (DeduplicationOrchestrator), on the variables of fix_file:  *)
(* fissues holds response.duplications, fresult the                        *)
(* DuplicationProcessingResult, fargs.max_issues is max_duplications.      *)
(* A duplication group is its key and the first line of its block in the   *)
(* target file; line 0 stands for a group without a block in that file.    *)
(***************************************************************************)
NoDupResult == [total_groups |-> 0, processable_groups |-> 0, skipped_groups |-> 0,
                groups_to_fix |-> <<>>]

\* DuplicationProcessor._sort_by_line_descending: sorted(..., reverse=True)
\* on the first line of the target block, a stable sort
duplication_sort_by_line_descending(groups) == SortDescending(groups)

\* DuplicationProcessor.process
duplication_process(groups, max_duplications) ==
    LET target_groups == SelectSeq(groups, HasLine)
        sorted == duplication_sort_by_line_descending(target_groups)
        capped == IF max_duplications # 0 /\ max_duplications > 0
                  THEN SubSeq(sorted, 1, IF max_duplications < Len(sorted)
                                         THEN max_duplications ELSE Len(sorted))
                  ELSE sorted
    IN  [total_groups |-> Len(groups),
         processable_groups |-> Len(target_groups),
         skipped_groups |-> Len(groups) - Len(capped),
         groups_to_fix |-> capped]

\* The groups a server answers with: in the target file at one of two lines,
\* or elsewhere.
DupGroups(n) ==
    UNION {{[i \in 1..k |-> [key |-> i, line |-> ls[i]]] : ls \in [1..k -> 0..2]} : k \in 0..n}

\* DeduplicationOrchestrator._validate_preconditions: the message of the
\* error it raises, "" for none
dedupe_validate_preconditions(r, dry_run, isRepo, exists, available) ==
    IF ~isRepo THEN "Not a Git repository"
    ELSE IF ~exists THEN "File not found"
    ELSE IF ~dry_run /\ require_clean_working_directory(r) THEN "DirtyWorkingDirectoryError"
    ELSE IF ~available THEN "AI tool is not available"
    ELSE ""

\* dedupe_file, step 1: _validate_preconditions
DValidate(isRepo, exists, available) ==
    /\ fpc = "dedupe_validate"
    /\ LET e == dedupe_validate_preconditions(repo, fargs.dry_run, isRepo, exists, available)
       IN  IF e # "" THEN Raise(e) ELSE fpc' = "dedupe_fetch" /\ UNCHANGED ferr
    /\ flog' = [flog EXCEPT !.pre =
                   <<[isRepo |-> isRepo, exists |-> exists, available |-> available,
                      dirty |-> require_clean_working_directory(repo)]>>]
    /\ UNCHANGED <<ioVars, vcsVars, branchVars, repo, sonar, fargs, fissues, fresult, fidx, fixres,
                   summary, attempts>>

\* dedupe_file, steps 2-4: get_duplications_for_file, then
\* DuplicationProcessor.process; no duplications and nothing to process
\* return at once
DFetch(ok, groups) ==
    /\ fpc = "dedupe_fetch"
    /\ flog' = [flog EXCEPT !.fetched = TRUE]
    /\ IF ~ok THEN
            /\ groups = <<>>
            /\ Raise("SonarQubeAPIError")
            /\ UNCHANGED <<fissues, fresult, fidx, summary>>
       ELSE IF groups = <<>> THEN
            /\ Return(FixSummary(0, 0))
            /\ UNCHANGED <<fissues, fresult, fidx, ferr>>
       ELSE LET result == duplication_process(groups, fargs.max_issues)
            IN  /\ fissues' = groups
                /\ fresult' = result
                /\ UNCHANGED ferr
                /\ IF result.groups_to_fix = <<>>
                   THEN Return(FixSummary(result.total_groups, result.skipped_groups))
                        /\ UNCHANGED fidx
                   ELSE /\ fpc' = "dedupe_agent"
                        /\ fidx' = 1
                        /\ summary' = FixSummary(0, 0)
    /\ UNCHANGED <<ioVars, vcsVars, branchVars, repo, sonar, fargs, fixres, attempts>>

\* What the agent can do with one group: edit the target file (fixed), write
\* a new file b.ts as well (new), report success without a change (noop),
\* report failure (fail), raise.
DedupeOutcomes == {"fixed", "new", "noop", "fail", "raise"}

\* _process_duplications, the agent call of one loop round
\* (ai_tool.fix_duplication) and, for all but a success outside a dry run,
\* the tally of _handle_fix_result
DAgent(outcome, c) ==
    /\ fpc = "dedupe_agent"
    /\ fidx <= Len(fresult.groups_to_fix)
    /\ LET group == enumerate_issues(fresult.groups_to_fix, fidx)
           edited == CASE outcome = "fixed" -> {fargs.file_path}
                       [] outcome = "new" -> Files
                       [] OTHER -> {}
       IN  /\ \A f \in edited : repo.wt[f] # c
           /\ repo' = [repo EXCEPT !.wt = [f \in Files |-> IF f \in edited THEN c
                                                            ELSE repo.wt[f]]]
           /\ attempts' = Append(attempts, Attempt(group, outcome, "n/a"))
           /\ IF outcome = "raise" THEN
                   Raise("agent raised") /\ UNCHANGED <<summary, fidx>>
              ELSE IF outcome = "fail" THEN
                   /\ summary' = TallyFailure(summary)
                   /\ fidx' = fidx + 1
                   /\ UNCHANGED <<fpc, ferr>>
              ELSE IF ~commits_fix(fargs.dry_run) THEN
                   /\ summary' = [summary EXCEPT !.fixed = summary.fixed + 1]
                   /\ fidx' = fidx + 1
                   /\ UNCHANGED <<fpc, ferr>>
              ELSE /\ fpc' = "dedupe_commit"
                   /\ UNCHANGED <<summary, fidx, ferr>>
    /\ UNCHANGED <<ioVars, vcsVars, branchVars, sonar, fargs, fissues, fresult, fixres, flog>>

\* _handle_fix_result, what the try block around create_commit does to the
\* summary: a commit id is appended and fixed is incremented, None
\* increments skipped, an exception increments failed
TallyDedupeCommit(s, out) ==
    IF out.res = "id"
    THEN [s EXCEPT !.commits = Append(s.commits, out.repo.commits), !.fixed = s.fixed + 1]
    ELSE IF out.res = "none" THEN [s EXCEPT !.skipped = s.skipped + 1]
    ELSE TallyFailure(s)

\* _handle_fix_result, the commit of one loop round:
\* create_commit(commit_msg, None, include_untracked=True)
DCommit(fault) ==
    /\ fpc = "dedupe_commit"
    /\ LET out == GitCreateCommit(repo, [auto |-> TRUE, files |-> {}], TRUE, fault)
           last == attempts[Len(attempts)]
       IN  /\ repo' = out.repo
           /\ summary' = TallyDedupeCommit(summary, out)
           /\ attempts' = [attempts EXCEPT ![Len(attempts)] = [last EXCEPT !.commit = out.res]]
    /\ fidx' = fidx + 1
    /\ fpc' = "dedupe_agent"
    /\ UNCHANGED <<ioVars, vcsVars, branchVars, sonar, fargs, fissues, fresult, fixres, ferr, flog>>

\* dedupe_file, steps 5-6 after the loop: total_issues and skipped are
\* assigned from the processing result, the summary is displayed and returned
DSummarize ==
    /\ fpc = "dedupe_agent"
    /\ fidx > Len(fresult.groups_to_fix)
    /\ Return([summary EXCEPT !.total_issues = fresult.total_groups,
                              !.skipped = fresult.skipped_groups])
    /\ flog' = [flog EXCEPT !.rendered = Append(flog.rendered, summary')]
    /\ UNCHANGED <<ioVars, vcsVars, branchVars, repo, sonar, fargs, fissues, fresult, fidx, fixres,
                   ferr, attempts>>

NextDedupe ==
    \/ \E r, e, a \in BOOLEAN : DValidate(r, e, a)
    \/ \E ok \in BOOLEAN, groups \in DupGroups(MaxIssues) : DFetch(ok, groups)
    \/ \E o \in DedupeOutcomes, c \in Contents : DAgent(o, c)
    \/ \E fault \in BOOLEAN : DCommit(fault)
    \/ DSummarize

\* One run of dedupe_file(file_path, dry_run, max_duplications).
InitDedupe ==
    /\ backend = "git"
    /\ lastCall = NoCall
    /\ IdleIo
    /\ fargs \in [file_path : {"a.py"}, dry_run : BOOLEAN, max_issues : 0..MaxCap,
                  min_severity : {""}]
    /\ repo \in FixRepos(fargs.file_path)
    /\ sonar = [f \in Files |-> <<>>]
    /\ fpc = "dedupe_validate"
    /\ fissues = <<>>
    /\ fresult = NoDupResult
    /\ fidx = 0
    /\ fixres = NoFixResult
    /\ summary = FixSummary(0, 0)
    /\ ferr = ""
    /\ attempts = <<>>
    /\ flog = NoLog
    /\ IdleBranch

SpecDedupe == InitDedupe /\ [][NextDedupe]_vars

(***************************************************************************)
(* The two processors on their own: IssueProcessor.process and             *)
(* DuplicationProcessor.process applied to the lists a server can answer   *)
(* with, on the variables fissues (the input), fargs (min_severity,        *)
(* max_issues) and fresult (the result).                                   *)
(***************************************************************************)
\* the longest list handed to a processor
MaxProcIssues == 3

Thresholds == {"", "INFO", "MINOR", "MAJOR", "CRITICAL", "BLOCKER"}

\* The findings of the lists: fixable ones at three lines and severities,
\* one without a line, one in the terminal status term.
ProcKinds(term) ==
    {[line |-> 1, status |-> "OPEN", severity |-> "INFO"],
     [line |-> 2, status |-> "OPEN", severity |-> "MAJOR"],
     [line |-> 3, status |-> "OPEN", severity |-> "BLOCKER"],
     [line |-> 0, status |-> "OPEN", severity |-> "BLOCKER"],
     [line |-> 3, status |-> term, severity |-> "BLOCKER"]}

ProcGroups(n) ==
    UNION {{[i \in 1..k |-> [key |-> i, line |-> ls[i]]] : ls \in [1..k -> 0..3]} : k \in 0..n}

procUnchanged == <<ioVars, vcsVars, branchVars, repo, sonar, fissues, fidx, fixres, summary, ferr,
                   attempts, flog>>

\* IssueProcessor(min_severity, max_issues).process(issues)
PProcess ==
    /\ fpc = "issues"
    /\ fresult' = process(fissues, fargs.min_severity, fargs.max_issues)
    /\ fpc' = "processed"
    /\ UNCHANGED <<procUnchanged, fargs>>

\* The same list goes to a processor with a higher threshold (a first
\* threshold, when there was none).
PRaiseThreshold(t) ==
    /\ fpc = "processed"
    /\ severity_rank(t) > severity_rank(fargs.min_severity)
    /\ fargs' = [fargs EXCEPT !.min_severity = t]
    /\ fresult' = process(fissues, t, fargs.max_issues)
    /\ fpc' = "reprocessed"
    /\ UNCHANGED procUnchanged

\* DuplicationProcessor(max_duplications).process(response, component_key)
PDuplications ==
    /\ fpc = "groups"
    /\ fresult' = duplication_process(fissues, fargs.max_issues)
    /\ fpc' = "groups_processed"
    /\ UNCHANGED <<procUnchanged, fargs>>

NextProc ==
    \/ PProcess
    \/ \E t \in Thresholds : PRaiseThreshold(t)
    \/ PDuplications

InitProc ==
    /\ backend = "git"
    /\ lastCall = NoCall
    /\ IdleIo
    /\ repo \in {r \in CleanRepos : \A f \in Files : r.head[f] # 0}
    /\ sonar = [f \in Files |-> <<>>]
    /\ fpc \in {"issues", "groups"}
    /\ fargs \in [file_path : {"a.py"}, dry_run : {FALSE}, max_issues : -1..MaxCap,
                  min_severity : Thresholds]
    /\ IF fpc = "issues"
       THEN fissues \in UNION {IssueLists(ProcKinds(term), MaxProcIssues) :
                                  term \in TerminalStatuses}
       ELSE fissues \in ProcGroups(MaxProcIssues) /\ fargs.min_severity = ""
    /\ fresult = NoResult
    /\ fidx = 0
    /\ fixres = NoFixResult
    /\ summary = FixSummary(0, 0)
    /\ ferr = ""
    /\ attempts = <<>>
    /\ flog = NoLog
    /\ IdleBranch

SpecProc == InitProc /\ [][NextProc]_vars


(***************************************************************************)
(* One agent invocation: ClaudeCodeTool.fix_issue / AiderTool.fix_issue    *)
(* with _invoke_claude / _invoke_aider.  The subprocess is a process of    *)
(* its own: it may terminate at any moment while it runs.                  *)
(***************************************************************************)
\* seconds an agent may be given
MaxTimeout == 2

Tools == {"claude", "aider"}

AgentFixResult(success, error_message) ==
    [success |-> success, error_message |-> error_message]

NoAgentResult == AgentFixResult(FALSE, "none")

agentUnchanged == <<vcsVars, repo, fixVars, branchVars, waitVars>>

\* fix_issue up to the creation of the prompt file in _invoke
AFixIssue ==
    /\ apc = "fix_issue"
    /\ IF ~aargs.available
       THEN /\ aresult' = AgentFixResult(FALSE, "CLI not found")
            /\ apc' = "returned"
            /\ UNCHANGED temp_file
       ELSE IF ~aargs.file_exists
       THEN /\ aresult' = AgentFixResult(FALSE, "File not found")
            /\ apc' = "returned"
            /\ UNCHANGED temp_file
       ELSE /\ temp_file' = TRUE
            /\ apc' = "spawn"
            /\ UNCHANGED aresult
    /\ UNCHANGED <<agentUnchanged, aargs, subprocess, aclock, pending, kills>>

\* asyncio.create_subprocess_exec: the subprocess starts, or the call raises
ASpawn(started) ==
    /\ apc = "spawn"
    /\ IF started
       THEN /\ subprocess' = [state |-> "running", returncode |-> -1]
            /\ apc' = "communicate"
            /\ UNCHANGED pending
       ELSE /\ pending' = "OSError"
            /\ apc' = "finally"
            /\ UNCHANGED subprocess
    /\ UNCHANGED <<agentUnchanged, aargs, aclock, temp_file, aresult, kills>>

\* a second passes while wait_for(process.communicate(), timeout) is pending
ATick ==
    /\ apc = "communicate"
    /\ aclock < aargs.timeout
    /\ aclock' = aclock + 1
    /\ UNCHANGED <<agentUnchanged, aargs, apc, subprocess, temp_file, pending, aresult, kills>>

\* the subprocess terminates on its own with an exit code
AExit(code) ==
    /\ subprocess.state = "running"
    /\ subprocess' = [state |-> "exited", returncode |-> code]
    /\ UNCHANGED <<agentUnchanged, aargs, apc, aclock, temp_file, pending, aresult, kills>>

\* communicate() returns: the subprocess has terminated and was waited for
ACommunicate ==
    /\ apc = "communicate"
    /\ subprocess.state = "exited"
    /\ subprocess' = [subprocess EXCEPT !.state = "reaped"]
    /\ aresult' = IF subprocess.returncode = 0
                  THEN AgentFixResult(TRUE, "")
                  ELSE AgentFixResult(FALSE, "failed with exit code")
    /\ apc' = "finally"
    /\ UNCHANGED <<agentUnchanged, aargs, aclock, temp_file, pending, kills>>

\* wait_for gives up: communicate() is cancelled and TimeoutError is raised
\* into the handler of _invoke
ATimeout ==
    /\ apc = "communicate"
    /\ aclock = aargs.timeout
    /\ apc' = "timed_out"
    /\ UNCHANGED <<agentUnchanged, aargs, subprocess, aclock, temp_file, pending, aresult, kills>>

\* process.kill(): SIGKILL to a running subprocess.  For a subprocess that
\* terminated in the meantime the call does nothing, or raises
\* ProcessLookupError when the transport is closed already.
AKill(lookup_error) ==
    /\ apc = "timed_out"
    /\ kills' = kills + 1
    /\ IF subprocess.state = "running"
       THEN /\ subprocess' = [subprocess EXCEPT !.state = "killed"]
            /\ apc' = "wait"
            /\ UNCHANGED pending
       ELSE IF lookup_error
       THEN /\ pending' = "ProcessLookupError"
            /\ apc' = "finally"
            /\ UNCHANGED subprocess
       ELSE /\ apc' = "wait"
            /\ UNCHANGED <<subprocess, pending>>
    /\ UNCHANGED <<agentUnchanged, aargs, aclock, temp_file, aresult>>

\* process.wait() returns once the subprocess has terminated
process_wait_skipped(p) == p

process_wait(p) == [p EXCEPT !.state = "reaped"]

\* await process.wait(); raise
AWait ==
    /\ apc = "wait"
    /\ subprocess' = process_wait(subprocess)
    /\ pending' = "TimeoutError"
    /\ apc' = "finally"
    /\ UNCHANGED <<agentUnchanged, aargs, aclock, temp_file, aresult, kills>>

\* the finally block of _invoke removes the prompt file; fix_issue returns
\* the result, or the failure it makes of the exception
AFinally ==
    /\ apc = "finally"
    /\ temp_file' = FALSE
    /\ aresult' = IF pending = "" THEN aresult
                  ELSE IF pending = "TimeoutError"
                  THEN AgentFixResult(FALSE, "timed out")
                  ELSE AgentFixResult(FALSE, "Error invoking")
    /\ pending' = ""
    /\ apc' = "returned"
    /\ UNCHANGED <<agentUnchanged, aargs, subprocess, aclock, kills>>

NextAgent ==
    \/ AFixIssue
    \/ \E started \in BOOLEAN : ASpawn(started)
    \/ ATick
    \/ \E code \in {0, 1} : AExit(code)
    \/ ACommunicate
    \/ ATimeout
    \/ \E lookup_error \in BOOLEAN : AKill(lookup_error)
    \/ AWait
    \/ AFinally

\* One call of fix_issue on a tool the factory creates.
InitAgent ==
    /\ backend = "git"
    /\ lastCall = NoCall
    /\ repo \in {r \in CleanRepos : \A f \in Files : r.head[f] = 1}
    /\ IdleFix
    /\ IdleBranch
    /\ aargs \in [tool : Tools, timeout : 1..MaxTimeout, available : BOOLEAN,
                  file_exists : BOOLEAN]
    /\ apc = "fix_issue"
    /\ subprocess = NoProcess
    /\ aclock = 0
    /\ temp_file = FALSE
    /\ pending = ""
    /\ aresult = NoAgentResult
    /\ kills = 0
    /\ wargs = [timeout |-> 2]
    /\ wpc = "idle"
    /\ task = "PENDING"
    /\ elapsed = 0
    /\ last_status = "None"
    /\ wresult = FALSE
    /\ requests = <<>>

SpecAgent == InitAgent /\ [][NextAgent]_vars

(***************************************************************************)
(* AnalysisRunner._wait_for_analysis(task_id, timeout).  The server works  *)
(* on the task by itself; each poll is answered with the status of the     *)
(* task, with a body that has no task, or fails in SonarQubeClient._request*)
(* with SonarQubeAPIError or with an error of another class                *)
(* (SonarQubeAuthError on a 401 answer, ValueError on a body that is not   *)
(* JSON).                                                                  *)
(***************************************************************************)
\* polls a wait may take: timeout / poll_interval
MaxPolls == 3

poll_interval == 2

TaskStatuses == {"PENDING", "IN_PROGRESS", "SUCCESS", "FAILED", "CANCELED"}

Responses == {"task", "no_task", "SonarQubeAPIError", "SonarQubeAuthError"}

waitUnchanged == <<vcsVars, repo, fixVars, branchVars, agentVars>>

\* the request of one poll and the answer it got
Poll(response, status) ==
    [method |-> "GET", endpoint |-> "/api/ce/task", response |-> response, status |-> status]

\* the status read from the answer: task.get("status")
status_of(response) ==
    IF response = "task" THEN task ELSE "None"

\* exceptions of _request the loop catches and retries after
is_api_error(response) == response = "SonarQubeAPIError"

analysis_succeeded_any_final(status) == status \in {"SUCCESS", "FAILED", "CANCELED"}

analysis_succeeded(status) == status = "SUCCESS"

analysis_failed(status) == status \in {"FAILED", "CANCELED"}

\* the server moves the task on
TaskAdvance(status) ==
    /\ wpc \in {"poll", "sleep"}
    /\ \/ task = "PENDING" /\ status \in {"IN_PROGRESS", "CANCELED"}
       \/ task = "IN_PROGRESS" /\ status \in {"SUCCESS", "FAILED", "CANCELED"}
    /\ task' = status
    /\ UNCHANGED <<waitUnchanged, wargs, wpc, elapsed, last_status, wresult, requests>>

\* one pass of "while elapsed < timeout" up to the sleep
WPoll(response) ==
    /\ wpc = "poll"
    /\ IF ~(elapsed < wargs.timeout)
       THEN /\ wresult' = FALSE
            /\ wpc' = "returned"
            /\ UNCHANGED <<last_status, requests>>
       ELSE LET status == status_of(response)
            IN  /\ requests' = Append(requests, Poll(response, status))
                /\ IF is_api_error(response)
                   THEN wpc' = "sleep" /\ UNCHANGED <<last_status, wresult>>
                   ELSE IF response \notin {"task", "no_task"}
                   THEN wpc' = "raised" /\ UNCHANGED <<last_status, wresult>>
                   ELSE /\ last_status' = status
                        /\ IF analysis_succeeded(status)
                           THEN wresult' = TRUE /\ wpc' = "returned"
                           ELSE IF analysis_failed(status)
                           THEN wresult' = FALSE /\ wpc' = "returned"
                           ELSE wpc' = "sleep" /\ UNCHANGED wresult
    /\ UNCHANGED <<waitUnchanged, wargs, task, elapsed>>

\* await asyncio.sleep(poll_interval); elapsed += poll_interval
WSleep ==
    /\ wpc = "sleep"
    /\ elapsed' = elapsed + poll_interval
    /\ wpc' = "poll"
    /\ UNCHANGED <<waitUnchanged, wargs, task, last_status, wresult, requests>>

WaitStep == (\E response \in Responses : WPoll(response)) \/ WSleep

NextWait ==
    \/ \E status \in TaskStatuses : TaskAdvance(status)
    \/ \E response \in Responses : WPoll(response)
    \/ WSleep

\* One call of _wait_for_analysis after the scanner handed the task in; the
\* timeout is a multiple of the poll interval, as the 300 seconds of
\* run_analysis are.
InitWait ==
    /\ backend = "git"
    /\ lastCall = NoCall
    /\ repo \in {r \in CleanRepos : \A f \in Files : r.head[f] = 1}
    /\ IdleFix
    /\ IdleBranch
    /\ aargs = [tool |-> "claude", timeout |-> 1, available |-> TRUE, file_exists |-> TRUE]
    /\ apc = "idle"
    /\ subprocess = NoProcess
    /\ aclock = 0
    /\ temp_file = FALSE
    /\ pending = ""
    /\ aresult = NoAgentResult
    /\ kills = 0
    /\ wargs \in [timeout : {poll_interval * k : k \in 1..MaxPolls}]
    /\ wpc = "poll"
    /\ task \in {"PENDING", "IN_PROGRESS"}
    /\ elapsed = 0
    /\ last_status = "None"
    /\ wresult = FALSE
    /\ requests = <<>>

SpecWait == InitWait /\ [][NextWait]_vars

\* the loop runs on the event loop until it returns or raises: whenever it
\* can take a step, it does; nothing obliges the server to move the task on
FairWait == SpecWait /\ WF_vars(WaitStep)

(***************************************************************************)
(* Claims about the version-control adapters (checked under SpecVcs)       *)
(***************************************************************************)

IsRepeat == lastCall.first # "n/a"

\* C5: commit_fix called when a file it covers differs from HEAD returns a
\* commit id (unless the backend's commit itself fails), and called again with
\* the same files argument (None, or the same non-empty list) and nothing
\* written in between, it returns None.
ClaimC5 ==
    (lastCall.op = "commit_fix" /\ (lastCall.arg.auto \/ lastCall.arg.files # {})) =>
        /\ (lastCall.preDiff /\ lastCall.res # "commit_failed") => lastCall.res = "id"
        /\ lastCall.first = "id" => lastCall.res = "none"

WitnessC5 ==
    /\ lastCall.op = "commit_fix"
    /\ ~lastCall.arg.auto /\ lastCall.arg.files # {}
    /\ lastCall.first = "id"
    /\ lastCall.res = "none"

OriginalC1 ==
    [][(/\ fpc = "commit"
        /\ ~fargs.dry_run
        /\ fixres.success
        /\ attempts' # attempts
        /\ attempts'[Len(attempts')].commit = "none")
       => (/\ summary'.skipped = summary.skipped + 1
           /\ summary'.fixed = summary.fixed
           /\ summary'.failed = summary.failed)]_vars

OriginalC2 == bpc = "done" => calls.delete = 1

\* C2, corrected: the delete is invoked exactly once in every branch run that
\* created the ephemeral project, however the run ended, and not at all in a
\* run that created none (nothing modified, or an error before or in the
\* creation); it is never invoked before the run's finally clause.
ClaimC2 ==
    /\ calls.create <= 1
    /\ calls.delete = IF bpc = "done" /\ calls.create = 1 THEN 1 ELSE 0

WitnessC2 ==
    /\ bpc = "done"
    /\ calls.delete = 1
    /\ bresult.kind = "exception"
    /\ calls.passes >= 1

\* C3: when the analysis refresh reports failure in iteration k, the loop
\* stops at once (the failed refresh is the last, k - 1 fix passes were made
\* and no fix_file is running), the result has success = False and names
\* iteration k, and its per-file tallies are those accumulated so far.
ClaimC3 ==
    bresult.kind = "analysis_failed" =>
        /\ bpc \in {"finally", "done"}
        /\ fpc = "idle"
        /\ ~bresult.success
        /\ bresult.error_iteration = calls.analysis
        /\ calls.passes = calls.analysis - 1
        /\ bresult.files_processed = Values(file_results_map, modified_files)
        /\ \A i \in DOMAIN bresult.files_processed :
               bresult.files_processed[i].issues_fixed =
                   ghostFixed[bresult.files_processed[i].file_path]

WitnessC3 ==
    /\ bresult.kind = "analysis_failed"
    /\ bpc = "done"
    /\ bresult.error_iteration = 2
    /\ \E i \in DOMAIN bresult.files_processed : bresult.files_processed[i].issues_fixed > 0

\* C4: a branch run makes at most max_iterations analysis refreshes and
\* always comes to its end; when it leaves the loop by the early break, no
\* modified file has a fixable finding in the findings of that iteration.
ClaimC4 ==
    /\ [](/\ calls.analysis <= bargs.max_iterations
          /\ broke => \A i \in DOMAIN modified_files :
                          CountFixable(sonar[modified_files[i]]) = 0)
    /\ <>(bpc = "done")

WitnessC4 ==
    /\ bpc = "done"
    /\ broke
    /\ calls.passes >= 1
    /\ calls.analysis = bargs.max_iterations

\* C8, as stated: when the processing of one file raises or fails in the fix
\* pass of an iteration, every other file with fixable findings is still
\* processed in that pass, and the failure is recorded in the tally of the
\* failing file only.
OriginalC8 ==
    (/\ bpc \notin {"fix", "fix_file"}
     /\ \E i \in DOMAIN passLog : passLog[i].outcome \in {"raised", "failed"})
    => (/\ Len(passLog) = Len(files_with_issues)
        /\ \A i \in DOMAIN passLog :
               passLog[i].outcome = "ok" =>
                   file_results_map[passLog[i].file].error_message # passLog[i].iteration)

\* C9, as stated: when an exception is raised in cleanup_branch after a
\* completed fix pass, the result has success = False, carries the message
\* of the exception, and its per-file tallies hold the fixed counts
\* accumulated before the exception.
OriginalC9 ==
    (bresult.kind = "exception" /\ calls.passes >= 1)
    => (/\ ~bresult.success
        /\ bresult.error_message = berr
        /\ \A f \in DOMAIN file_results_map :
               ghostFixed[f] > 0 =>
                   \E i \in DOMAIN bresult.files_processed :
                       /\ bresult.files_processed[i].file_path = f
                       /\ bresult.files_processed[i].issues_fixed = ghostFixed[f])

\* C11, as stated: whenever fix_file ends by failing (a precondition, the
\* fetch, or an exception while fixing), the summary accumulated up to then
\* has been rendered.
OriginalC11 == fpc = "raised" => flog.rendered = <<summary>>

\* C12, as stated (for the cleanup command): the exit code is non-zero
\* exactly when the result reports a failure, a failed fix in the tally of
\* any file included.
OriginalC12 ==
    exit_code # Running =>
        (exit_code # 0 <=>
            (\/ ~bresult.success
             \/ \E i \in DOMAIN bresult.files_processed : ~bresult.files_processed[i].success))

\* C13: the teardown never changes the result of the branch run and never
\* raises: whether the delete of the ephemeral project succeeds or fails,
\* the finally clause hands the result that was built before it to the caller.
ClaimC13 == [][bpc = "finally" => (bpc' = "done" /\ bresult' = bresult)]_vars

WitnessC13 ==
    /\ bpc = "done"
    /\ calls.delete_failed
    /\ calls.delete = 1
    /\ bresult.kind = "ok"
    /\ bresult.total_issues_fixed >= 1

\* C14: when commit_fix raises after the agent reported success, the
\* finding is counted as failed and not as fixed, no commit id is recorded,
\* the working tree keeps the agent's change (HEAD and the commit count stay
\* as they are), and the loop goes on with the next worklist entry; a
\* fix_file that returns after fixing has attempted every entry.
ClaimC14 ==
    /\ [][(/\ fpc = "commit"
           /\ attempts' # attempts
           /\ attempts'[Len(attempts')].commit \in {"commit_failed", "no_files"})
          => (/\ summary'.failed = summary.failed + 1
              /\ summary'.fixed = summary.fixed
              /\ summary'.commits = summary.commits
              /\ repo'.wt = repo.wt
              /\ repo'.head = repo.head
              /\ repo'.commits = repo.commits
              /\ fpc' = "agent"
              /\ fidx' = fidx + 1)]_vars
    /\ []((fpc = "returned" /\ attempts # <<>>) => Len(attempts) = Len(fresult.issues_to_fix))

WitnessC14 ==
    /\ Len(attempts) = 2
    /\ attempts[1].commit = "commit_failed"
    /\ attempts[2].commit = "id"
    /\ summary.failed = 1
    /\ summary.fixed = 1
    /\ fpc = "returned"

\* C15: when the agent reports failure for a finding, failed grows by
\* exactly one, nothing is staged or committed for that finding (the loop
\* goes straight to the next entry), and no finding is handed to the agent
\* twice in a pass.
ClaimC15 ==
    /\ [][(/\ fpc = "agent"
           /\ attempts' # attempts
           /\ attempts'[Len(attempts')].agent = "fail")
          => (/\ summary'.failed = summary.failed + 1
              /\ summary'.fixed = summary.fixed
              /\ summary'.commits = summary.commits
              /\ repo' = repo
              /\ fpc' = "agent"
              /\ fidx' = fidx + 1)]_vars
    /\ [](\A i, j \in DOMAIN attempts :
              /\ attempts[i].agent = "fail" => attempts[i].commit = "n/a"
              /\ i # j => attempts[i].key # attempts[j].key)

WitnessC15 ==
    /\ Len(attempts) = 2
    /\ attempts[1].agent = "fail"
    /\ attempts[2].agent = "fixed"
    /\ attempts[2].commit = "id"
    /\ summary.failed = 1
    /\ fpc = "returned"

\* C16, as stated: when fix_file returns from a run that is not a dry run,
\* the commits added to the history are as many as the fixed count, and
\* summary.commits lists exactly their ids, with no absent entry.
OriginalC16 ==
    (fpc = "returned" /\ ~fargs.dry_run) =>
        /\ repo.commits = summary.fixed
        /\ summary.commits = [i \in 1..repo.commits |-> i]

\* C17: in a dry run every finding for which the agent reports success
\* increments fixed, nothing is ever staged or committed, and the
\* summary's commit list stays empty.
ClaimC17 ==
    /\ [](fargs.dry_run =>
              /\ fpc # "commit"
              /\ summary.commits = <<>>
              /\ repo.commits = 0
              /\ repo.index = repo.head
              /\ \A i \in DOMAIN attempts : attempts[i].commit = "n/a")
    /\ [][(/\ fargs.dry_run
           /\ fpc = "agent"
           /\ attempts' # attempts
           /\ attempts'[Len(attempts')].agent \in {"fixed", "noop", "nofiles", "extra"})
          => summary'.fixed = summary.fixed + 1]_vars

WitnessC17 ==
    /\ fargs.dry_run
    /\ fpc = "returned"
    /\ summary.fixed = 2
    /\ summary.commits = <<>>
    /\ repo.wt[fargs.file_path] # repo.head[fargs.file_path]

\* C18: when the confirmation is answered with something that is not a
\* yes, the fixing is never entered: fix_file returns with no agent call,
\* no commit, fixed = failed = 0 and every candidate finding skipped.
ClaimC18 ==
    flog.answer = "no" =>
        /\ fpc = "returned"
        /\ attempts = <<>>
        /\ repo.commits = 0
        /\ repo.index = repo.head
        /\ summary.fixed = 0
        /\ summary.failed = 0
        /\ summary.commits = <<>>
        /\ summary.skipped = Len(fresult.issues_to_fix)

WitnessC18 ==
    /\ flog.answer = "no"
    /\ ~fargs.dry_run
    /\ Len(fresult.issues_to_fix) = 2
    /\ summary.skipped = 2

\* C19: when a precondition is violated (no repository, no such file, the
\* target file has uncommitted changes outside a dry run, no agent),
\* fix_file ends by raising, before any fetch, agent call or VCS mutation.
ClaimC19 ==
    (/\ flog.pre # <<>>
     /\ \/ ~flog.pre[1].isRepo
        \/ ~flog.pre[1].exists
        \/ ~flog.pre[1].available
        \/ (~fargs.dry_run /\ flog.pre[1].dirty))
    => (/\ fpc = "raised"
        /\ ~flog.fetched
        /\ attempts = <<>>
        /\ repo.commits = 0
        /\ repo.index = repo.head)

WitnessC19 ==
    /\ flog.pre # <<>>
    /\ flog.pre[1].isRepo
    /\ flog.pre[1].exists
    /\ ~flog.pre[1].dirty
    /\ ~flog.pre[1].available
    /\ fpc = "raised"
    /\ sonar[fargs.file_path] # <<>>

\* C20, as stated: outside a dry run the validation (in a repository, the
\* target file existing) fails with the dirty-working-directory error
\* whenever any tracked file is modified or staged; in a dry run the
\* cleanliness is not checked.
OriginalC20 ==
    [][(/\ fpc = "validate"
        /\ flog'.pre # <<>>
        /\ flog'.pre[1].isRepo
        /\ flog'.pre[1].exists)
       => IF fargs.dry_run
          THEN ferr' # "uncommitted changes"
          ELSE GitModifiedOrStaged(repo) # {} =>
                   (fpc' = "raised" /\ ferr' = "uncommitted changes")]_vars

\* An attempt whose agent call has reported success and whose commit step
\* has not come back yet.
AttemptInProgress(a) ==
    /\ a.agent \in {"fixed", "noop", "nofiles", "extra"}
    /\ ~fargs.dry_run
    /\ a.commit = "n/a"

\* C21: during the fixing the attempts are made in the order of the worklist,
\* highest line first, and the attempt for one entry, its commit step
\* included, is over before the attempt for the next entry begins: only the
\* latest attempt can be in progress, and only while its commit is running.
ClaimC21 ==
    /\ Len(attempts) <= Len(fresult.issues_to_fix)
    /\ \A i \in DOMAIN attempts :
          /\ attempts[i].key = fresult.issues_to_fix[i].key
          /\ attempts[i].line = fresult.issues_to_fix[i].line
          /\ AttemptInProgress(attempts[i]) => (i = Len(attempts) /\ fpc = "commit")
    /\ \A i, j \in DOMAIN attempts : i < j => attempts[i].line >= attempts[j].line
    /\ fpc = "commit" => (attempts # <<>> /\ AttemptInProgress(attempts[Len(attempts)]))

WitnessC21 ==
    /\ Len(attempts) = 2
    /\ attempts[1].line > attempts[2].line
    /\ attempts[1].commit = "id"
    /\ fpc = "commit"

\* C22: when no file is modified, or none is left after the pattern filter,
\* the branch run returns success with an empty per-file list and zero
\* fixed, and neither creates a temporary project nor runs an analysis.
ClaimC22 ==
    (bpc # "start" /\ berr = "" /\ modified_files = <<>>)
    => (/\ bpc \in {"finally", "done"}
        /\ bresult.success
        /\ bresult.files_processed = <<>>
        /\ bresult.total_issues_fixed = 0
        /\ ~temp_project
        /\ calls.create = 0
        /\ calls.analysis = 0
        /\ calls.delete = 0)

WitnessC22 ==
    /\ bpc = "done"
    /\ berr = ""
    /\ modified_files = <<>>
    /\ calls.found > 0
    /\ bargs.file_patterns # {}
    /\ bresult.success

\* C23: when all max_iterations iterations have run, each with a successful
\* analysis refresh and a fix pass after it, the branch run returns
\* success = True together with what the passes have fixed, whatever is
\* still outstanding.
ClaimC23 ==
    (bpc \in {"finally", "done"} /\ calls.passes = bargs.max_iterations)
    => (/\ bresult.kind = "ok"
        /\ bresult.success
        /\ calls.analysis = bargs.max_iterations
        /\ ~broke
        /\ bresult.total_issues_fixed =
               SumFixed([i \in DOMAIN modified_files |->
                            [issues_fixed |-> ghostFixed[modified_files[i]]]])
        /\ \A i \in DOMAIN bresult.files_processed :
               bresult.files_processed[i].issues_fixed =
                   ghostFixed[bresult.files_processed[i].file_path])

\* the last pass has left a finding unfixed
WitnessC23 ==
    /\ bpc = "done"
    /\ bargs.max_iterations = 2
    /\ calls.passes = 2
    /\ bresult.total_issues_fixed >= 1
    /\ \E i \in DOMAIN bresult.files_processed :
           bresult.files_processed[i].error_message = 2

\* C24: when the loop is left by its break in iteration k, the first one
\* whose fixable count is zero, the run has made exactly k analysis
\* refreshes and exactly k - 1 fix passes, makes no more of either, and the
\* total it reports is the sum of the fixed counts of those k - 1 passes.
ClaimC24 ==
    broke => (/\ bpc \in {"after_loop", "finally", "done"}
              /\ total_fixable = 0
              /\ calls.analysis = iteration + 1
              /\ calls.analysis <= bargs.max_iterations
              /\ calls.passes = calls.analysis - 1
              /\ bpc # "after_loop" =>
                    /\ bresult.kind = "ok"
                    /\ bresult.total_issues_fixed =
                           SumFixed([i \in DOMAIN modified_files |->
                                        [issues_fixed |-> ghostFixed[modified_files[i]]]]))

WitnessC24 ==
    /\ broke
    /\ bpc = "done"
    /\ calls.analysis = 2
    /\ calls.passes = 1
    /\ bresult.total_issues_fixed >= 1

\* C25, as stated: in a dedupe_file run outside a dry run, a group for which
\* the agent reports success while there is nothing to commit is recorded
\* in the returned summary as skipped, not as failed and not as fixed.
OriginalC25 ==
    LET NothingToCommit == {i \in DOMAIN attempts : attempts[i].commit \in {"none", "no_files"}}
        Committed == {i \in DOMAIN attempts : attempts[i].commit = "id"}
        Failures == {i \in DOMAIN attempts :
                         attempts[i].agent = "fail" \/ attempts[i].commit = "commit_failed"}
    IN  (fpc = "returned" /\ ~fargs.dry_run /\ attempts # <<>>)
        => (/\ summary.skipped = fresult.skipped_groups + Cardinality(NothingToCommit)
            /\ summary.failed = Cardinality(Failures)
            /\ summary.fixed = Cardinality(Committed))

TrackedModifiedOrStaged(b, r) ==
    \E f \in Files :
        IF b = "git"
        THEN (r.index[f] # 0 /\ r.wt[f] # r.index[f]) \/ r.index[f] # r.head[f]
        ELSE (r.head[f] # 0 /\ r.wt[f] # r.head[f]) \/ (r.head[f] = 0 /\ r.index[f] # 0)

\* C27, as stated: require_clean_working_directory raises
\* DirtyWorkingDirectory if and only if at least one tracked file is modified
\* or staged, for every manager the orchestrators hold; untracked files
\* alone never make it raise.
OriginalC27 ==
    lastCall.op \in {"require_clean_working_directory", "legacy_require_clean_working_directory"}
    => (lastCall.res = "dirty" <=> TrackedModifiedOrStaged(backend, repo))

\* the worklist a processor has produced
Worklist == IF fpc = "groups_processed" THEN fresult.groups_to_fix ELSE fresult.issues_to_fix

\* the entries of the input a processor can put on the worklist
FixableInput ==
    IF fpc = "groups_processed" THEN SelectSeq(fissues, HasLine)
    ELSE SelectSeq(fissues, is_fixable)

\* C28: for any input list, the sequence a processor produces is ordered by
\* non-increasing line number, and strictly decreasing when the fixable
\* entries of the input have pairwise distinct line numbers.
ClaimC28 ==
    fpc \in {"processed", "reprocessed", "groups_processed"}
    => /\ \A i, j \in DOMAIN Worklist : i < j => Worklist[i].line >= Worklist[j].line
       /\ (\A i, j \in DOMAIN FixableInput :
               i # j => FixableInput[i].line # FixableInput[j].line)
          => \A i, j \in DOMAIN Worklist : i < j => Worklist[i].line > Worklist[j].line

WitnessC28 ==
    /\ fpc = "processed"
    /\ Len(Worklist) = 3
    /\ fissues[1].line < fissues[2].line
    /\ Worklist[1].line > Worklist[2].line
    /\ Worklist[2].line > Worklist[3].line

\* C29: no finding without a line and no finding in a terminal status
\* (RESOLVED, CLOSED, WONTFIX, FALSE-POSITIVE, ACCEPTED) is in the sequence
\* the Finding Processor produces, whatever the threshold and the cap.
ClaimC29 ==
    fpc \in {"processed", "reprocessed"}
    => \A i \in DOMAIN fresult.issues_to_fix :
          /\ fresult.issues_to_fix[i].line # 0
          /\ fresult.issues_to_fix[i].status \notin
                 {"RESOLVED", "CLOSED", "WONTFIX", "FALSE-POSITIVE", "ACCEPTED"}
          /\ \E k \in DOMAIN fissues : fissues[k] = fresult.issues_to_fix[i]

WitnessC29 ==
    /\ fpc = "processed"
    /\ fargs.min_severity = ""
    /\ fargs.max_issues = 0
    /\ \E k \in DOMAIN fissues : fissues[k].status = "ACCEPTED"
    /\ \E k \in DOMAIN fissues : fissues[k].line = 0
    /\ Len(fresult.issues_to_fix) = 1

\* C30: for a fixed input list and cap, raising the minimum-severity
\* threshold, or setting one where there was none, never makes the output
\* sequence longer.
ClaimC30 ==
    [][fpc' = "reprocessed" =>
          Len(fresult'.issues_to_fix) <= Len(fresult.issues_to_fix)]_vars

WitnessC30 ==
    /\ fpc = "reprocessed"
    /\ fargs.min_severity = "BLOCKER"
    /\ fargs.max_issues = 0
    /\ Len(fresult.issues_to_fix) = 1
    /\ Len(SelectSeq(fissues, is_fixable)) = 3

\* the sorted sequence before the cut to max_issues
UncappedSequence ==
    LET Passes(i) == /\ i.line # 0
                     /\ i.status \notin TerminalStatuses
                     /\ (fargs.min_severity # "" =>
                            severity_rank(i.severity) >= severity_rank(fargs.min_severity))
    IN  SortDescending(SelectSeq(fissues, Passes))

\* C31: with a positive cap N the output sequence is the first min(N, n)
\* entries of the uncapped sorted sequence of length n, so it is never
\* longer than N; with no cap, or a cap that is not positive, nothing is cut.
ClaimC31 ==
    fpc \in {"processed", "reprocessed"}
    => LET n == Len(UncappedSequence)
           N == fargs.max_issues
       IN  IF N > 0
           THEN /\ fresult.issues_to_fix = SubSeq(UncappedSequence, 1, IF N < n THEN N ELSE n)
                /\ Len(fresult.issues_to_fix) <= N
           ELSE fresult.issues_to_fix = UncappedSequence

WitnessC31 ==
    /\ fpc = "processed"
    /\ fargs.max_issues = 1
    /\ Len(UncappedSequence) = 3
    /\ fresult.issues_to_fix = <<UncappedSequence[1]>>

\* C32: the worklist reports total as the number of input findings, fixable
\* as the number of findings that pass the fixability filter and the
\* severity filter, counted before the cap, and skipped as total minus the
\* length of the final sequence.
ClaimC32 ==
    fpc \in {"processed", "reprocessed"}
    => /\ fresult.total_issues = Len(fissues)
       /\ fresult.fixable_issues =
              Cardinality({k \in DOMAIN fissues :
                              /\ fissues[k].line # 0
                              /\ fissues[k].status \notin TerminalStatuses
                              /\ (fargs.min_severity # "" =>
                                     severity_rank(fissues[k].severity)
                                         >= severity_rank(fargs.min_severity))})
       /\ fresult.skipped_issues = fresult.total_issues - Len(fresult.issues_to_fix)

WitnessC32 ==
    /\ fpc = "processed"
    /\ fresult.total_issues = 3
    /\ fresult.fixable_issues = 2
    /\ fresult.skipped_issues = 2
    /\ Len(fresult.issues_to_fix) = 1

\* C33: when an agent invocation runs into its timeout, the subprocess is
\* killed and its termination awaited before fix_issue returns the timeout
\* failure; a caller holding a failure never has a subprocess still running
\* or signalled but not yet awaited.
ClaimC33 ==
    apc = "returned" =>
        /\ aresult.error_message = "timed out" => subprocess.state = "reaped" /\ kills = 1
        /\ subprocess.state \notin {"running", "killed"}

WitnessC33 ==
    /\ apc = "returned"
    /\ aresult = AgentFixResult(FALSE, "timed out")
    /\ kills = 1
    /\ subprocess.returncode = -1


\* the properties of the wait that hold in every state: success is returned
\* only with SUCCESS as the last status read, FAILED and CANCELED end the wait
\* with failure, the polls sent fit the budget timeout / poll_interval, and
\* nothing but the status query is ever sent to the server
WaitSafe ==
    /\ wpc = "returned" /\ wresult => last_status = "SUCCESS" /\ task = "SUCCESS"
    /\ last_status \in {"FAILED", "CANCELED"} => wpc = "returned" /\ ~wresult
    /\ Len(requests) * poll_interval <= wargs.timeout
    /\ \A i \in 1..Len(requests) :
           requests[i].method = "GET" /\ requests[i].endpoint = "/api/ce/task"

\* C34 as stated: every wait ends by returning, within the poll budget and
\* without a cancel request.
OriginalC34 == []WaitSafe /\ <>(wpc = "returned")

\* C34: every wait ends within the poll budget and without a cancel request:
\* it returns success only after reading SUCCESS, failure after FAILED or
\* CANCELED or when the budget is used up (also when every poll failed with
\* SonarQubeAPIError), and it ends by raising exactly when a poll failed with
\* an error of another class.
ClaimC34 ==
    /\ []WaitSafe
    /\ [](wpc = "raised" <=>
            /\ requests # <<>>
            /\ requests[Len(requests)].response \notin {"task", "no_task", "SonarQubeAPIError"})
    /\ <>(wpc \in {"returned", "raised"})

WitnessC34 ==
    /\ wpc = "returned"
    /\ ~wresult
    /\ Len(requests) = MaxPolls
    /\ \A i \in 1..Len(requests) : requests[i].response = "SonarQubeAPIError"


\* C35 as stated: every FixSummary fix_file or dedupe_file returns, on every
\* return path, has fixed + failed + skipped = total_issues.
OriginalC35 ==
    fpc = "returned" =>
        summary.fixed + summary.failed + summary.skipped = summary.total_issues


\* C36 as stated: on every return path of cleanup_branch the result's
\* total_issues_fixed is the sum of issues_fixed over the per-file tallies
\* the result carries.
OriginalC36 ==
    bresult # NoCleanupResult =>
        bresult.total_issues_fixed = SumFixed(bresult.files_processed)


\* C37 as stated: in every result of a branch run a per-file tally has
\* success = false exactly when it carries an error message (0 stands for
\* None), a file whose fixes failed in some iteration still carries a message,
\* and the tally of a file is never below the fixes made in it.
OriginalC37 ==
    bresult # NoCleanupResult =>
        \A i \in DOMAIN bresult.files_processed :
            LET t == bresult.files_processed[i]
            IN  /\ ~t.success <=> t.error_message # 0
                /\ (\E j \in DOMAIN passLog :
                        passLog[j].file = t.file_path /\ passLog[j].outcome = "failed")
                       => t.error_message # 0
                /\ t.issues_fixed >= ghostFixed[t.file_path]


\* C38: the check step and the fix step of an iteration leave the project
\* key of the configuration (which is also the client's) as they found it, on
\* a normal return and on an exception alike: the temporary key is in place
\* only while one of the two steps is executing, and never once
\* cleanup_branch has its result.
ClaimC38 ==
    /\ configKey = "temp" => bpc \in {"check", "fix", "fix_file"}
    /\ bpc \notin {"check", "fix", "fix_file"} => configKey = "base"
    /\ bresult # NoCleanupResult => configKey = "base"

\* a fix step that ended with an exception after the key was overridden
WitnessC38 ==
    /\ bpc = "done"
    /\ bresult.kind = "exception"
    /\ \E j \in DOMAIN passLog : passLog[j].outcome = "raised"
    /\ configKey = "base"


\* C39 as stated: a commit that commit_fix creates from an explicit file list
\* changes HEAD in the listed files only, and leaves what is staged and what
\* is in the working tree for the other files as it was.
OriginalC39 ==
    [][(/\ lastCall'.op = "commit_fix"
        /\ ~lastCall'.arg.auto
        /\ lastCall'.res = "id")
       => \A f \in Files \ lastCall'.arg.files :
              /\ repo'.head[f] = repo.head[f]
              /\ repo'.index[f] = repo.index[f]
              /\ repo'.wt[f] = repo.wt[f]]_vars


\* a repository state that reads the same for both backends: nothing is
\* staged but the addition of a new file as it is in the working tree
SameForBoth(r) ==
    \A f \in Files : r.index[f] = r.head[f] \/ (r.head[f] = 0 /\ r.index[f] = r.wt[f])

\* the outcome classes of a call that both adapters are to agree on
OutcomeClass(out) ==
    CASE out.res = "id" -> "id"
      [] out.res = "none" -> "absent"
      [] OTHER -> "error"

\* C40 as stated: in the same repository state and with the same arguments
\* commit_fix and create_commit end in the same class of outcome under Git
\* and under Mercurial (an error, an absent id or a new commit id).
OriginalC40 ==
    SameForBoth(repo) =>
        \A arg \in FileArgs :
            /\ OutcomeClass(commit_fix("git", repo, arg, FALSE))
                   = OutcomeClass(commit_fix("hg", repo, arg, FALSE))
            /\ \A u \in BOOLEAN :
                   OutcomeClass(create_commit("git", repo, arg, u, FALSE))
                       = OutcomeClass(create_commit("hg", repo, arg, u, FALSE))


====
